---------------------------- MODULE Spec2Model ----------------------------
(***************************************************************************)
(* Setker: a tree-walking interpreter (lexer, recursive-descent parser,    *)
(* evaluator with nested environments, command-line driver).               *)
(*                                                                         *)
(* Program text, lexemes, names and string values are sequences of         *)
(* one-character strings (<<"v","a","r">> is the text var), so that the    *)
(* lexer, std::stod and the number formatting work on characters as the    *)
(* code does.  Enumerations of the code (token kinds, node kinds, error    *)
(* names) are TLA+ strings.  C++ indices are 0-based and kept 0-based;     *)
(* CharAt and Tok do the shift.                                            *)
(***************************************************************************)
EXTENDS Integers, Sequences, FiniteSets, TLC

(***************************************************************************)
(* Characters                                                              *)
(***************************************************************************)
DigitChars == <<"0", "1", "2", "3", "4", "5", "6", "7", "8", "9">>

LowerChars == {"a", "b", "c", "d", "e", "f", "g", "h", "i", "j", "k", "l", "m",
               "n", "o", "p", "q", "r", "s", "t", "u", "v", "w", "x", "y", "z"}

UpperChars == {"A", "B", "C", "D", "E", "F", "G", "H", "I", "J", "K", "L", "M",
               "N", "O", "P", "Q", "R", "S", "T", "U", "V", "W", "X", "Y", "Z"}

\* the terminating '\0' that std::string::operator[] yields at index size()
NUL == "NUL"

isLetter(c) == c \in LowerChars \cup UpperChars \cup {"_"}

isDigit(c) == \E i \in 1..10 : DigitChars[i] = c

isAlphaNumeric(c) == isLetter(c) \/ isDigit(c)

DigitVal(c) == (CHOOSE i \in 1..10 : DigitChars[i] = c) - 1

\* file_contents[i] for 0 <= i <= size()
CharAt(s, i) == IF i < Len(s) THEN s[i + 1] ELSE NUL

\* file_contents.substr(i, n)
Substr(s, i, n) == SubSeq(s, i + 1, i + n)

(***************************************************************************)
(* Text constants of the code                                              *)
(***************************************************************************)
s_and == <<"a", "n", "d">>
s_or == <<"o", "r">>
s_true == <<"t", "r", "u", "e">>
s_false == <<"f", "a", "l", "s", "e">>
s_nil == <<"n", "i", "l">>
s_group == <<"g", "r", "o", "u", "p">>
s_block == <<"b", "l", "o", "c", "k">>
s_program == <<"p", "r", "o", "g", "r", "a", "m">>
s_print == <<"p", "r", "i", "n", "t">>
s_return == <<"r", "e", "t", "u", "r", "n">>
s_while == <<"w", "h", "i", "l", "e">>
s_if == <<"i", "f">>
s_clock == <<"c", "l", "o", "c", "k">>
s_class == <<"c", "l", "a", "s", "s">>
s_else == <<"e", "l", "s", "e">>
s_for == <<"f", "o", "r">>
s_fun == <<"f", "u", "n">>
s_super == <<"s", "u", "p", "e", "r">>
s_this == <<"t", "h", "i", "s">>
s_var == <<"v", "a", "r">>

(***************************************************************************)
(* Numbers.  A double is modelled by the rational n/d in lowest terms with *)
(* d > 0, exact wherever the double arithmetic of the inputs used here is  *)
(* exact.  d = 0 marks the non-finite result of a division by zero.        *)
(***************************************************************************)
Abs(x) == IF x < 0 THEN -x ELSE x

RECURSIVE Gcd(_, _)
Gcd(a, b) == IF b = 0 THEN a ELSE Gcd(b, a % b)

RECURSIVE Pow10(_)
Pow10(k) == IF k <= 0 THEN 1 ELSE 10 * Pow10(k - 1)

Rat(n, d) ==
    IF d = 0 THEN [n |-> (IF n > 0 THEN 1 ELSE IF n < 0 THEN -1 ELSE 0), d |-> 0]
    ELSE LET g == Gcd(Abs(n), Abs(d))
             sg == IF d < 0 THEN -1 ELSE 1
         IN  [n |-> sg * (n \div g), d |-> sg * (d \div g)]

RatAdd(x, y) == Rat(x.n * y.d + y.n * x.d, x.d * y.d)
RatSub(x, y) == Rat(x.n * y.d - y.n * x.d, x.d * y.d)
RatMul(x, y) == Rat(x.n * y.n, x.d * y.d)
RatDiv(x, y) == Rat(x.n * y.d, x.d * y.n)
RatNeg(x) == [n |-> -x.n, d |-> x.d]
RatLess(x, y) == x.n * y.d < y.n * x.d
RatIsInt(x) == x.d = 1

\* the quotient of a by b truncated toward zero
TruncDiv(a, b) ==
    LET q == Abs(a) \div Abs(b)
    IN  IF (a < 0) = (b < 0) THEN q ELSE -q

\* std::fmod: x - trunc(x/y)*y, the sign of the dividend
RatFmod(x, y) ==
    IF y.n = 0 THEN Rat(0, 0)
    ELSE RatSub(x, RatMul(Rat(TruncDiv(x.n * y.d, x.d * y.n), 1), y))

\* a/b rounded to the nearest integer, ties to even (a >= 0, b > 0)
RoundDiv(a, b) ==
    LET q == a \div b
        r == a % b
    IN  IF 2 * r > b \/ (2 * r = b /\ q % 2 = 1) THEN q + 1 ELSE q

\* decimal digits of a natural number
RECURSIVE NatToStr(_)
NatToStr(n) ==
    IF n < 10 THEN <<DigitChars[n + 1]>>
    ELSE NatToStr(n \div 10) \o <<DigitChars[(n % 10) + 1]>>

\* operator<< and std::to_string of a long long
IntToStr(n) == IF n < 0 THEN <<"-">> \o NatToStr(-n) ELSE NatToStr(n)

\* n written with exactly w digits, zero padded on the left
RECURSIVE PadDigits(_, _)
PadDigits(n, w) ==
    IF w <= 0 THEN <<>>
    ELSE PadDigits(n \div 10, w - 1) \o <<DigitChars[(n % 10) + 1]>>

RECURSIVE StripZeros(_)
StripZeros(s) ==
    IF Len(s) > 0 /\ s[Len(s)] = "0" THEN StripZeros(SubSeq(s, 1, Len(s) - 1))
    ELSE s

RECURSIVE Zeros(_)
Zeros(k) == IF k <= 0 THEN <<>> ELSE <<"0">> \o Zeros(k - 1)

\* std::to_string(double): printf "%f", six decimals
ToStringF(x) ==
    LET r == RoundDiv(Abs(x.n) * 1000000, x.d)
    IN  (IF x.n < 0 THEN <<"-">> ELSE <<>>)
        \o NatToStr(r \div 1000000) \o <<".">> \o PadDigits(r % 1000000, 6)

\* the decimal exponent e with 10^e <= a/b < 10^(e+1)   (a, b > 0)
RECURSIVE Exp10Up(_, _, _)
Exp10Up(a, b, e) == IF a >= 10 * b THEN Exp10Up(a, 10 * b, e + 1) ELSE e

RECURSIVE Exp10Down(_, _, _)
Exp10Down(a, b, e) == IF a < b THEN Exp10Down(10 * a, b, e - 1) ELSE e

Exp10(a, b) == IF a >= b THEN Exp10Up(a, b, 0) ELSE Exp10Down(a, b, 0)

\* operator<<(double) with the default precision 6: printf "%g"
ToStringG(x) ==
    IF x.n = 0 THEN <<"0">>
    ELSE
    LET a == Abs(x.n)
        e0 == Exp10(a, x.d)
        m0 == IF e0 >= 5 THEN RoundDiv(a, x.d * Pow10(e0 - 5))
              ELSE RoundDiv(a * Pow10(5 - e0), x.d)
        e == IF m0 = 1000000 THEN e0 + 1 ELSE e0
        m == IF m0 = 1000000 THEN 100000 ELSE m0
        digs == PadDigits(m, 6)
        sign == IF x.n < 0 THEN <<"-">> ELSE <<>>
        frac(s) == IF StripZeros(s) = <<>> THEN <<>> ELSE <<".">> \o StripZeros(s)
    IN  IF e >= 0 /\ e < 6
        THEN sign \o SubSeq(digs, 1, e + 1) \o frac(SubSeq(digs, e + 2, 6))
        ELSE IF e < 0 /\ e >= -4
        THEN sign \o <<"0", ".">> \o Zeros(-e - 1) \o StripZeros(digs)
        ELSE sign \o SubSeq(digs, 1, 1) \o frac(SubSeq(digs, 2, 6))
             \o <<"e", (IF e < 0 THEN "-" ELSE "+")>> \o PadDigits(Abs(e), 2)

\* std::stod on a lexeme that starts with a digit: the longest prefix of
\* the form digits [ '.' digits ]
RECURSIVE DigitRun(_, _)
DigitRun(s, i) == IF isDigit(CharAt(s, i)) THEN DigitRun(s, i + 1) ELSE i

RECURSIVE DigitsVal(_, _, _, _)
DigitsVal(s, i, j, acc) ==
    IF i >= j THEN acc ELSE DigitsVal(s, i + 1, j, 10 * acc + DigitVal(CharAt(s, i)))

Stod(s) ==
    LET j == DigitRun(s, 0)
        ip == DigitsVal(s, 0, j, 0)
    IN  IF CharAt(s, j) = "."
        THEN LET k == DigitRun(s, j + 1)
             IN  Rat(ip * Pow10(k - j - 1) + DigitsVal(s, j + 1, k, 0), Pow10(k - j - 1))
        ELSE Rat(ip, 1)

(***************************************************************************)
(* Tokens and the lexer (Tokenizer.cpp)                                    *)
(***************************************************************************)
NL == "\n"
TAB == "\t"
QUOTE == "\""

NullLit == [lk |-> "null", num |-> Rat(0, 1), str |-> <<>>]
DoubleLit(x) == [lk |-> "double", num |-> x, str |-> <<>>]
StringLit(s) == [lk |-> "string", num |-> Rat(0, 1), str |-> s]

Token(type, lexeme) == [type |-> type, lexeme |-> lexeme, literal |-> NullLit]
TokenLit(type, lexeme, lit) == [type |-> type, lexeme |-> lexeme, literal |-> lit]

valorateKeyword(keyword) ==
    IF keyword = s_and THEN "AND"
    ELSE IF keyword = s_class THEN "CLASS"
    ELSE IF keyword = s_else THEN "ELSE"
    ELSE IF keyword = s_false THEN "FALSE"
    ELSE IF keyword = s_for THEN "FOR"
    ELSE IF keyword = s_fun THEN "FUN"
    ELSE IF keyword = s_if THEN "IF"
    ELSE IF keyword = s_nil THEN "NIL"
    ELSE IF keyword = s_or THEN "OR"
    ELSE IF keyword = s_print THEN "PRINT"
    ELSE IF keyword = s_return THEN "RETURN"
    ELSE IF keyword = s_super THEN "SUPER"
    ELSE IF keyword = s_this THEN "THIS"
    ELSE IF keyword = s_true THEN "TRUE"
    ELSE IF keyword = s_var THEN "VAR"
    ELSE IF keyword = s_while THEN "WHILE"
    ELSE "IDENTIFIER"

\* The lexer's module-level state: tokens, line, exitCode; err is what it
\* wrote to standard error, one entry per diagnostic.
LexState(tokens, line, exitCode, err) ==
    [tokens |-> tokens, line |-> line, exitCode |-> exitCode, err |-> err]

Emit(L, tok) == [L EXCEPT !.tokens = Append(@, tok)]

\* a diagnostic that leaves the exit code as it is
LexError_noExitCode(L, kind, ch) ==
    [L EXCEPT !.err = Append(@, [line |-> L.line, kind |-> kind, ch |-> ch])]

LexError(L, kind, ch) ==
    [L EXCEPT !.exitCode = 65,
              !.err = Append(@, [line |-> L.line, kind |-> kind, ch |-> ch])]

\* a scan that ends at the end of the input when no "|>" follows
RECURSIVE BlockCommentScan_toEnd(_, _, _)
BlockCommentScan_toEnd(s, i, j) ==
    IF j >= Len(s) THEN Len(s)
    ELSE IF CharAt(s, j) = "|" /\ CharAt(s, j + 1) = ">" THEN j + 1
    ELSE BlockCommentScan_toEnd(s, i, j + 1)

\* valorateWhitespaces: the index of the '>' that closes the block comment,
\* or i unchanged when no "|>" follows
RECURSIVE BlockCommentScan(_, _, _)
BlockCommentScan(s, i, j) ==
    IF j >= Len(s) THEN i
    ELSE IF CharAt(s, j) = "|" /\ CharAt(s, j + 1) = ">" THEN j + 1
    ELSE BlockCommentScan(s, i, j + 1)

valorateWhitespaces(s, i) == BlockCommentScan(s, i, i + 1)

\* the index j at which valorateString stops: the first j > i that is the
\* end of input or not alphanumeric
RECURSIVE WordEnd(_, _)
WordEnd(s, j) ==
    IF j = Len(s) \/ CharAt(s, j) = " " \/ CharAt(s, j) = NL \/ CharAt(s, j) = TAB
       \/ ~isAlphaNumeric(CharAt(s, j))
    THEN j
    ELSE WordEnd(s, j + 1)

valorateString(s, i, L) ==
    LET j == WordEnd(s, i + 1)
        keyword == Substr(s, i, j - i)
    IN  [i |-> j - 1, L |-> Emit(L, Token(valorateKeyword(keyword), keyword))]

\* the index j at which valorateNumber stops: the first j > i that is the
\* end of input or neither a digit nor a '.'
RECURSIVE NumberEnd(_, _)
NumberEnd(s, j) ==
    IF j = Len(s) \/ CharAt(s, j) = " " \/ CharAt(s, j) = NL \/ CharAt(s, j) = TAB
       \/ ~isDigit(CharAt(s, j))
    THEN IF CharAt(s, j) = "." THEN NumberEnd(s, j + 1) ELSE j
    ELSE NumberEnd(s, j + 1)

valorateNumber(s, i, L) ==
    LET j == NumberEnd(s, i + 1)
        lexeme == Substr(s, i, j - i)
    IN  [i |-> j - 1, L |-> Emit(L, TokenLit("NUMBER", lexeme, DoubleLit(Stod(lexeme))))]

\* case '/' with a second '/': the index of the newline or of the end
RECURSIVE LineCommentEnd(_, _)
LineCommentEnd(s, j) ==
    IF CharAt(s, j) = NL \/ j = Len(s) THEN j ELSE LineCommentEnd(s, j + 1)

\* a scan that takes the end of the input for the closing quote
RECURSIVE StringScan_closedByEnd(_, _, _)
StringScan_closedByEnd(s, j, nl) ==
    IF j >= Len(s) THEN [j |-> Len(s) - 1, nl |-> nl]
    ELSE IF CharAt(s, j) = QUOTE THEN [j |-> j, nl |-> nl]
    ELSE StringScan_closedByEnd(s, j + 1, IF CharAt(s, j) = NL THEN nl + 1 ELSE nl)

\* case '"': scan to the closing quote, counting the newlines passed
RECURSIVE StringScan(_, _, _)
StringScan(s, j, nl) ==
    IF j >= Len(s) \/ CharAt(s, j) = QUOTE THEN [j |-> j, nl |-> nl]
    ELSE StringScan(s, j + 1, IF CharAt(s, j) = NL THEN nl + 1 ELSE nl)

SingleCharKind(c) ==
    CASE c = "+" -> "PLUS"
      [] c = "-" -> "MINUS"
      [] c = "*" -> "MULT"
      [] c = "%" -> "MOD"
      [] c = ";" -> "SEMICOLON"
      [] c = "," -> "COMMA"
      [] c = "." -> "DOT"
      [] c = ":" -> "COLON"
      [] c = "(" -> "L_PAREN"
      [] c = ")" -> "R_PAREN"
      [] c = "{" -> "L_BRACE"
      [] c = "}" -> "R_BRACE"
      [] c = "[" -> "L_BRACKET"
      [] c = "]" -> "R_BRACKET"
      [] OTHER -> "NONE"

\* one iteration of the for loop of valorateTokens: the body of the switch
\* at index i; the result holds i as the body leaves it (before the i++)
LexStep(s, i, L) ==
    LET c == CharAt(s, i)
        c1 == CharAt(s, i + 1)
    IN  IF SingleCharKind(c) # "NONE"
        THEN [i |-> i, L |-> Emit(L, Token(SingleCharKind(c), <<c>>))]
        ELSE IF c = "/"
        THEN IF c1 = "/"
             THEN LET j == LineCommentEnd(s, i + 1)
                  IN  [i |-> j,
                       L |-> IF CharAt(s, j) = NL THEN [L EXCEPT !.line = @ + 1] ELSE L]
             ELSE [i |-> i, L |-> Emit(L, Token("SLASH", <<"/">>))]
        ELSE IF c = "="
        THEN IF c1 = "="
             THEN [i |-> i + 1, L |-> Emit(L, Token("EQUAL_EQUAL", <<"=", "=">>))]
             ELSE [i |-> i, L |-> Emit(L, Token("EQUAL", <<"=">>))]
        ELSE IF c = QUOTE
        THEN LET r == StringScan(s, i + 1, 0)
                 str == Substr(s, i + 1, r.j - (i + 1))
                 L1 == [L EXCEPT !.line = @ + r.nl]
             IN  IF r.j >= Len(s)
                 THEN [i |-> r.j, L |-> LexError(L1, "Unterminated string.", "")]
                 ELSE [i |-> r.j, L |-> Emit(L1, TokenLit("STRING", str, StringLit(str)))]
        ELSE IF c = "!"
        THEN IF c1 = "="
             THEN [i |-> i + 1, L |-> Emit(L, Token("BANG_EQUAL", <<"!", "=">>))]
             ELSE [i |-> i, L |-> Emit(L, Token("BANG", <<"!">>))]
        ELSE IF c = ">"
        THEN IF c1 = "="
             THEN [i |-> i + 1, L |-> Emit(L, Token("GREATER_EQUAL", <<">", "=">>))]
             ELSE IF c1 = "|"
             THEN [i |-> i, L |-> L]
             ELSE [i |-> i, L |-> Emit(L, Token("GREATER", <<">">>))]
        ELSE IF c = "<"
        THEN IF c1 = "="
             THEN [i |-> i + 1, L |-> Emit(L, Token("LESS_EQUAL", <<"<", "=">>))]
             ELSE IF c1 = "|"
             THEN [i |-> valorateWhitespaces(s, i), L |-> L]
             ELSE [i |-> i, L |-> Emit(L, Token("LESS", <<"<">>))]
        ELSE IF c = NL
        THEN [i |-> i, L |-> [L EXCEPT !.line = @ + 1]]
        ELSE IF c = " " \/ c = TAB
        THEN [i |-> i, L |-> L]
        ELSE IF isLetter(c) THEN valorateString(s, i, L)
        ELSE IF isDigit(c) THEN valorateNumber(s, i, L)
        ELSE [i |-> i, L |-> LexError(L, "Unexpected character: ", c)]

RECURSIVE valorateTokensFrom(_, _, _)
valorateTokensFrom(s, i, L) ==
    IF i < Len(s)
    THEN LET r == LexStep(s, i, L) IN valorateTokensFrom(s, r.i + 1, r.L)
    ELSE Emit(L, Token("EOF_OF_FILE", <<>>))

valorateTokens(s, L) == valorateTokensFrom(s, 0, L)

\* getTokens: clears tokens and exitCode (line is left as it is) and lexes
getTokens(s, L) == valorateTokens(s, LexState(<<>>, L.line, 0, L.err))

\* the lexer's state when the process starts
LexInit == LexState(<<>>, 1, 0, <<>>)

(***************************************************************************)
(* Errors (ErrorCode.h).  A message is a sequence of text pieces.          *)
(***************************************************************************)
ErrorType(name, code) == [name |-> name, code |-> code]

InvalidAssignmentTarget == ErrorType("InvalidAssignmentTarget", 70)
OperandMustBeNumber == ErrorType("OperandMustBeNumber", 70)
OperandsMustBeNumbers == ErrorType("OperandsMustBeNumbers", 70)
ArgumentCountMismatch == ErrorType("ArgumentCountMismatch", 70)
CallOnNonFunction == ErrorType("CallOnNonFunction", 70)
RuntimeError == ErrorType("RuntimeError", 70)
ParseError == ErrorType("ParseError", 65)
NoErrorType == ErrorType("", 0)

\* Error(type, msg): the message defaults to the name of the type
Error(type, msg) == [type |-> type, message |-> IF msg = <<>> THEN <<type.name>> ELSE msg]

NoError == [type |-> NoErrorType, message |-> <<>>]

\* what a read of tokens[pos] with pos >= tokens.size() leads to
OutOfBounds == Error(ErrorType("OutOfBoundsRead", -1), <<>>)

(***************************************************************************)
(* AST nodes (ASTNode.h) and the parser (Parser.h)                         *)
(***************************************************************************)
Node(type, value, children) == [type |-> type, value |-> value, children |-> children]

Leaf(type, value) == Node(type, value, <<>>)

NoNode == Leaf("None", <<>>)

addChild(node, child) == [node EXCEPT !.children = Append(@, child)]

\* the result of a parse function: the node and the position reached, or
\* the Error thrown
POk(node, pos) == [ok |-> TRUE, node |-> node, pos |-> pos, err |-> NoError]
PThrow(err, pos) == [ok |-> FALSE, node |-> NoNode, pos |-> pos, err |-> err]

\* a local variable of a parse function: value is computed once and
\* named in Body
With(value, Body(_)) == Body(value)

InRange(tokens, pos) == pos < Len(tokens)
Tok(tokens, pos) == tokens[pos + 1]
\* pos < tokens.size() && tokens[pos].getType() == type
IsAt(tokens, pos, type) == InRange(tokens, pos) /\ Tok(tokens, pos).type = type

RECURSIVE parseUnary(_, _)
RECURSIVE parsePrimary(_, _)
RECURSIVE parseCall(_, _)
RECURSIVE parseCallLoop(_, _, _)
RECURSIVE parseArguments(_, _, _)
RECURSIVE parseAssignment(_, _)
RECURSIVE parseOr(_, _)
RECURSIVE parseOrLoop(_, _, _)
RECURSIVE parseAnd(_, _)
RECURSIVE parseAndLoop(_, _, _)
RECURSIVE parseMultiplicative(_, _)
RECURSIVE parseMultiplicativeLoop(_, _, _)
RECURSIVE parseAdditive(_, _)
RECURSIVE parseAdditiveLoop(_, _, _)
RECURSIVE parseComparison(_, _)
RECURSIVE parseComparisonLoop(_, _, _)
RECURSIVE parseEquality(_, _)
RECURSIVE parseEqualityLoop(_, _, _)
RECURSIVE parseExpression(_, _)
RECURSIVE parseStatement(_, _)
RECURSIVE parseParameters(_, _, _)
RECURSIVE parseBlockLoop(_, _, _)
RECURSIVE Parser(_, _, _)

parseUnary(tokens, pos) ==
    IF IsAt(tokens, pos, "BANG") \/ IsAt(tokens, pos, "MINUS")
    THEN With(Tok(tokens, pos).lexeme, LAMBDA op :
             With(parseUnary(tokens, pos + 1), LAMBDA right :
             IF ~right.ok THEN right
             ELSE POk(Node("BinaryOp", op, <<right.node>>), right.pos)))
    ELSE parseCall(tokens, pos)

parsePrimary(tokens, pos) ==
    IF ~InRange(tokens, pos) THEN PThrow(OutOfBounds, pos)
    ELSE
    With(Tok(tokens, pos), LAMBDA token :
        IF token.type = "R_PAREN" \/ token.type = "EOF_OF_FILE"
        THEN PThrow(Error(ParseError,
                 <<"Error at '">> \o token.lexeme \o <<"': Expect expression.\n">>), pos)
        ELSE IF token.type = "L_PAREN"
        THEN With(Parser("parseExpression", tokens, pos + 1), LAMBDA inner :
                 IF ~inner.ok THEN inner
                 ELSE IF ~IsAt(tokens, inner.pos, "R_PAREN")
                 THEN IF IsAt(tokens, inner.pos, "EOF_OF_FILE")
                      THEN PThrow(Error(ParseError, <<"Error at end: Expect ')'\n">>), inner.pos)
                      ELSE PThrow(Error(ParseError, <<"Expected ')'\n">>), inner.pos)
                 ELSE POk(Node("BinaryOp", s_group, <<inner.node>>), inner.pos + 1))
        ELSE IF token.type = "STRING"
        THEN POk(Leaf("String", token.literal.str), pos + 1)
        ELSE IF token.type = "TRUE" \/ token.type = "FALSE"
        THEN POk(Leaf("Boolean", token.lexeme), pos + 1)
        ELSE IF token.type = "NIL"
        THEN POk(Leaf("Nil", token.lexeme), pos + 1)
        ELSE IF token.type = "NUMBER"
        THEN POk(Leaf("Number", token.lexeme), pos + 1)
        ELSE IF token.type = "IDENTIFIER"
        THEN POk(Leaf("Identifier", token.lexeme), pos + 1)
        ELSE PThrow(Error(ParseError,
                 <<"Error at '">> \o token.lexeme \o <<"': Expect expression.\n">>), pos))

\* the do-while loop that collects the arguments of a call; the result
\* node holds the arguments as its children
parseArguments(tokens, pos, args) ==
    With(Parser("parseExpression", tokens, pos), LAMBDA arg :
        IF ~arg.ok THEN arg
        ELSE IF IsAt(tokens, arg.pos, "COMMA")
        THEN parseArguments(tokens, arg.pos + 1, Append(args, arg.node))
        ELSE POk(Node("Arguments", <<>>, Append(args, arg.node)), arg.pos))

\* a call parser that reads one argument list only
parseCallLoop_once(tokens, expr, pos) ==
    IF ~IsAt(tokens, pos, "L_PAREN") THEN POk(expr, pos)
    ELSE
    With(IF InRange(tokens, pos + 1) /\ Tok(tokens, pos + 1).type # "R_PAREN"
                THEN parseArguments(tokens, pos + 1, <<>>)
                ELSE POk(Node("Arguments", <<>>, <<>>), pos + 1), LAMBDA args :
        IF ~args.ok THEN args
        ELSE IF ~IsAt(tokens, args.pos, "R_PAREN")
        THEN PThrow(Error(ParseError, <<"Error: Expect ')' after arguments.\n">>), args.pos)
        ELSE POk(Node("Call", expr.value, args.node.children), args.pos + 1))

parseCallLoop(tokens, expr, pos) ==
    IF ~IsAt(tokens, pos, "L_PAREN") THEN POk(expr, pos)
    ELSE
    With(IF InRange(tokens, pos + 1) /\ Tok(tokens, pos + 1).type # "R_PAREN"
                THEN parseArguments(tokens, pos + 1, <<>>)
                ELSE POk(Node("Arguments", <<>>, <<>>), pos + 1), LAMBDA args :
        IF ~args.ok THEN args
        ELSE IF ~IsAt(tokens, args.pos, "R_PAREN")
        THEN PThrow(Error(ParseError, <<"Error: Expect ')' after arguments.\n">>), args.pos)
        ELSE parseCallLoop(tokens, Node("Call", expr.value, args.node.children), args.pos + 1))

parseCall(tokens, pos) ==
    With(parsePrimary(tokens, pos), LAMBDA expr :
        IF ~expr.ok THEN expr ELSE parseCallLoop(tokens, expr.node, expr.pos))

\* parseAssignment without the test of the target
parseAssignment_anyTarget(tokens, pos) ==
    With(parseOr(tokens, pos), LAMBDA expr :
        IF ~expr.ok THEN expr
        ELSE IF IsAt(tokens, expr.pos, "EQUAL")
        THEN With(parseAssignment(tokens, expr.pos + 1), LAMBDA value :
                 IF ~value.ok THEN value
                 ELSE POk(Node("BinaryOp", <<"=">>, <<expr.node, value.node>>), value.pos))
        ELSE expr)

parseAssignment(tokens, pos) ==
    With(parseOr(tokens, pos), LAMBDA expr :
        IF ~expr.ok THEN expr
        ELSE IF IsAt(tokens, expr.pos, "EQUAL")
        THEN With(parseAssignment(tokens, expr.pos + 1), LAMBDA value :
                 IF ~value.ok THEN value
                 ELSE IF expr.node.type # "Identifier"
                 THEN PThrow(Error(InvalidAssignmentTarget, <<>>), value.pos)
                 ELSE POk(Node("BinaryOp", <<"=">>, <<expr.node, value.node>>), value.pos))
        ELSE expr)

parseOrLoop(tokens, left, pos) ==
    IF ~IsAt(tokens, pos, "OR") THEN POk(left, pos)
    ELSE With(parseAnd(tokens, pos + 1), LAMBDA right :
             IF ~right.ok THEN right
             ELSE parseOrLoop(tokens,
                      Node("BinaryOp", Tok(tokens, pos).lexeme, <<left, right.node>>), right.pos))

parseOr(tokens, pos) ==
    With(parseAnd(tokens, pos), LAMBDA left :
        IF ~left.ok THEN left ELSE parseOrLoop(tokens, left.node, left.pos))

parseAndLoop(tokens, left, pos) ==
    IF ~IsAt(tokens, pos, "AND") THEN POk(left, pos)
    ELSE With(parseEquality(tokens, pos + 1), LAMBDA right :
             IF ~right.ok THEN right
             ELSE parseAndLoop(tokens,
                      Node("BinaryOp", Tok(tokens, pos).lexeme, <<left, right.node>>), right.pos))

parseAnd(tokens, pos) ==
    With(parseEquality(tokens, pos), LAMBDA left :
        IF ~left.ok THEN left ELSE parseAndLoop(tokens, left.node, left.pos))

parseMultiplicativeLoop(tokens, left, pos) ==
    IF ~(IsAt(tokens, pos, "MULT") \/ IsAt(tokens, pos, "SLASH") \/ IsAt(tokens, pos, "MOD"))
    THEN POk(left, pos)
    ELSE With(parseUnary(tokens, pos + 1), LAMBDA right :
             IF ~right.ok THEN right
             ELSE parseMultiplicativeLoop(tokens,
                      Node("BinaryOp", Tok(tokens, pos).lexeme, <<left, right.node>>), right.pos))

parseMultiplicative(tokens, pos) ==
    With(parseUnary(tokens, pos), LAMBDA left :
        IF ~left.ok THEN left ELSE parseMultiplicativeLoop(tokens, left.node, left.pos))

\* parseAdditiveLoop that parses its right operand at its own level
parseAdditiveLoop_rightAssoc(tokens, left, pos) ==
    IF ~(IsAt(tokens, pos, "PLUS") \/ IsAt(tokens, pos, "MINUS")) THEN POk(left, pos)
    ELSE With(parseAdditive(tokens, pos + 1), LAMBDA right :
             IF ~right.ok THEN right
             ELSE parseAdditiveLoop(tokens,
                      Node("BinaryOp", Tok(tokens, pos).lexeme, <<left, right.node>>), right.pos))

parseAdditiveLoop(tokens, left, pos) ==
    IF ~(IsAt(tokens, pos, "PLUS") \/ IsAt(tokens, pos, "MINUS")) THEN POk(left, pos)
    ELSE With(parseMultiplicative(tokens, pos + 1), LAMBDA right :
             IF ~right.ok THEN right
             ELSE parseAdditiveLoop(tokens,
                      Node("BinaryOp", Tok(tokens, pos).lexeme, <<left, right.node>>), right.pos))

parseAdditive(tokens, pos) ==
    With(parseMultiplicative(tokens, pos), LAMBDA left :
        IF ~left.ok THEN left ELSE parseAdditiveLoop(tokens, left.node, left.pos))

parseComparisonLoop(tokens, left, pos) ==
    IF ~(IsAt(tokens, pos, "LESS") \/ IsAt(tokens, pos, "LESS_EQUAL")
         \/ IsAt(tokens, pos, "GREATER") \/ IsAt(tokens, pos, "GREATER_EQUAL"))
    THEN POk(left, pos)
    ELSE With(parseAdditive(tokens, pos + 1), LAMBDA right :
             IF ~right.ok THEN right
             ELSE parseComparisonLoop(tokens,
                      Node("BinaryOp", Tok(tokens, pos).lexeme, <<left, right.node>>), right.pos))

parseComparison(tokens, pos) ==
    With(parseAdditive(tokens, pos), LAMBDA left :
        IF ~left.ok THEN left ELSE parseComparisonLoop(tokens, left.node, left.pos))

parseEqualityLoop(tokens, left, pos) ==
    IF ~(IsAt(tokens, pos, "EQUAL_EQUAL") \/ IsAt(tokens, pos, "BANG_EQUAL"))
    THEN POk(left, pos)
    ELSE With(parseComparison(tokens, pos + 1), LAMBDA right :
             IF ~right.ok THEN right
             ELSE parseEqualityLoop(tokens,
                      Node("BinaryOp", Tok(tokens, pos).lexeme, <<left, right.node>>), right.pos))

parseEquality(tokens, pos) ==
    With(parseComparison(tokens, pos), LAMBDA left :
        IF ~left.ok THEN left ELSE parseEqualityLoop(tokens, left.node, left.pos))

parseExpression(tokens, pos) == parseAssignment(tokens, pos)

\* the do-while loop that collects the parameter names of a function
\* declaration; the result node holds one Identifier per parameter
parseParameters(tokens, pos, params) ==
    IF ~InRange(tokens, pos) THEN PThrow(OutOfBounds, pos)
    ELSE IF Tok(tokens, pos).type # "IDENTIFIER"
    THEN PThrow(Error(ParseError, <<"Error: Expect parameter name.\n">>), pos)
    ELSE With(Append(params, Leaf("Identifier", Tok(tokens, pos).lexeme)), LAMBDA ps :
             IF IsAt(tokens, pos + 1, "COMMA")
             THEN parseParameters(tokens, pos + 2, ps)
             ELSE POk(Node("Parameters", <<>>, ps), pos + 1))

\* the while loop that collects the statements of a block up to '}'
parseBlockLoop(tokens, block, pos) ==
    IF InRange(tokens, pos) /\ Tok(tokens, pos).type # "R_BRACE"
    THEN With(Parser("parseStatement", tokens, pos), LAMBDA stmt :
             IF ~stmt.ok THEN stmt
             ELSE parseBlockLoop(tokens, addChild(block, stmt.node), stmt.pos))
    ELSE IF ~IsAt(tokens, pos, "R_BRACE")
    THEN PThrow(Error(ParseError, <<"Error at end: Expect '}'\n">>), pos)
    ELSE POk(block, pos + 1)

parseReturn(tokens, pos) ==
    With(IF InRange(tokens, pos + 1) /\ Tok(tokens, pos + 1).type # "SEMICOLON"
                 THEN Parser("parseExpression", tokens, pos + 1)
                 ELSE POk(NoNode, pos + 1), LAMBDA value :
        IF ~value.ok THEN value
        ELSE IF ~IsAt(tokens, value.pos, "SEMICOLON")
        THEN PThrow(Error(ParseError, <<"Error: Expect ';' after return value.\n">>), value.pos)
        ELSE POk(Node("ReturnStmt", s_return,
                      IF value.node = NoNode THEN <<>> ELSE <<value.node>>), value.pos + 1))

parseFunction(tokens, pos) ==
    IF ~IsAt(tokens, pos + 1, "IDENTIFIER")
    THEN PThrow(Error(ParseError, <<"Error: Expect function name after 'fun'.\n">>), pos + 1)
    ELSE IF ~IsAt(tokens, pos + 2, "L_PAREN")
    THEN PThrow(Error(ParseError, <<"Error: Expect '(' after function name.\n">>), pos + 2)
    ELSE
    With(Tok(tokens, pos + 1).lexeme, LAMBDA funcName :
        With(IF InRange(tokens, pos + 3) /\ Tok(tokens, pos + 3).type # "R_PAREN"
                      THEN parseParameters(tokens, pos + 3, <<>>)
                      ELSE POk(Node("Parameters", <<>>, <<>>), pos + 3), LAMBDA parameters :
        IF ~parameters.ok THEN parameters
        ELSE IF ~IsAt(tokens, parameters.pos, "R_PAREN")
        THEN PThrow(Error(ParseError, <<"Error: Expect ')' after parameters.\n">>), parameters.pos)
        ELSE With(Parser("parseStatement", tokens, parameters.pos + 1), LAMBDA body :
                 IF ~body.ok THEN body
                 ELSE IF body.node.type # "Program" \/ body.node.value # s_block
                 THEN PThrow(Error(ParseError,
                          <<"Error: Expect function body to be a block.\n">>), body.pos)
                 ELSE POk(Node("Function", funcName,
                               Append(parameters.node.children, body.node)), body.pos))))

\* the initializer clause of for: a var declaration, an expression
\* followed by ';', or a lone ';' (the result node is then NoNode)
parseForInitializer(tokens, pos) ==
    IF ~InRange(tokens, pos) THEN PThrow(OutOfBounds, pos)
    ELSE IF Tok(tokens, pos).type = "VAR" THEN Parser("parseStatement", tokens, pos)
    ELSE IF Tok(tokens, pos).type # "SEMICOLON"
    THEN With(Parser("parseExpression", tokens, pos), LAMBDA initExpr :
             IF ~initExpr.ok THEN initExpr
             ELSE IF ~IsAt(tokens, initExpr.pos, "SEMICOLON")
             THEN PThrow(Error(ParseError,
                      <<"Error: Expect ';' after loop initializer.\n">>), initExpr.pos)
             ELSE POk(initExpr.node, initExpr.pos + 1))
    ELSE POk(NoNode, pos + 1)

\* the condition clause and its ';', an omitted condition being false
parseForCondition_false(tokens, pos) ==
    IF ~InRange(tokens, pos) THEN PThrow(OutOfBounds, pos)
    ELSE
    With(IF Tok(tokens, pos).type # "SEMICOLON"
                     THEN Parser("parseExpression", tokens, pos)
                     ELSE POk(Leaf("Boolean", s_false), pos), LAMBDA condition :
        IF ~condition.ok THEN condition
        ELSE IF ~IsAt(tokens, condition.pos, "SEMICOLON")
        THEN PThrow(Error(ParseError,
                 <<"Error: Expect ';' after loop condition.\n">>), condition.pos)
        ELSE POk(condition.node, condition.pos + 1))

\* the condition clause and its ';'
parseForCondition(tokens, pos) ==
    IF ~InRange(tokens, pos) THEN PThrow(OutOfBounds, pos)
    ELSE
    With(IF Tok(tokens, pos).type # "SEMICOLON"
                     THEN Parser("parseExpression", tokens, pos)
                     ELSE POk(Leaf("Boolean", s_true), pos), LAMBDA condition :
        IF ~condition.ok THEN condition
        ELSE IF ~IsAt(tokens, condition.pos, "SEMICOLON")
        THEN PThrow(Error(ParseError,
                 <<"Error: Expect ';' after loop condition.\n">>), condition.pos)
        ELSE POk(condition.node, condition.pos + 1))

\* the increment clause and its ')'
parseForIncrement(tokens, pos) ==
    IF ~InRange(tokens, pos) THEN PThrow(OutOfBounds, pos)
    ELSE
    With(IF Tok(tokens, pos).type # "R_PAREN"
                     THEN Parser("parseExpression", tokens, pos)
                     ELSE POk(NoNode, pos), LAMBDA increment :
        IF ~increment.ok THEN increment
        ELSE IF ~IsAt(tokens, increment.pos, "R_PAREN")
        THEN PThrow(Error(ParseError,
                 <<"Error: Expect ')' after for clauses.\n">>), increment.pos)
        ELSE POk(increment.node, increment.pos + 1))

parseFor(tokens, pos) ==
    IF ~IsAt(tokens, pos + 1, "L_PAREN")
    THEN PThrow(Error(ParseError, <<"Error: Expect '(' after 'for'.\n">>), pos + 1)
    ELSE
    With(parseForInitializer(tokens, pos + 2), LAMBDA initializer :
        IF ~initializer.ok THEN initializer ELSE
    With(parseForCondition(tokens, initializer.pos), LAMBDA condition :
        IF ~condition.ok THEN condition ELSE
    With(parseForIncrement(tokens, condition.pos), LAMBDA increment :
        IF ~increment.ok THEN increment ELSE
    With(Parser("parseStatement", tokens, increment.pos), LAMBDA body :
        IF ~body.ok THEN body
        ELSE IF body.node.type = "VarDecl"
        THEN PThrow(Error(ParseError, <<"Error: Expect block after for clauses.\n">>), body.pos)
        ELSE
        With(IF increment.node # NoNode
                        THEN Node("Program", s_block, <<body.node, increment.node>>)
                        ELSE body.node, LAMBDA loopBody :
            With(Node("WhileStmt", s_while, <<condition.node, loopBody>>), LAMBDA loop :
            IF initializer.node # NoNode
            THEN POk(Node("Program", s_block, <<initializer.node, loop>>), body.pos)
            ELSE POk(loop, body.pos)))))))

parseIf(tokens, pos) ==
    IF ~IsAt(tokens, pos + 1, "L_PAREN")
    THEN PThrow(Error(ParseError, <<"Error: Expect '(' after 'if'.\n">>), pos + 1)
    ELSE
    With(Parser("parseExpression", tokens, pos + 2), LAMBDA condition :
        IF ~condition.ok THEN condition
        ELSE IF ~IsAt(tokens, condition.pos, "R_PAREN")
        THEN PThrow(Error(ParseError, <<"Error: Expect ')' after condition.\n">>), condition.pos)
        ELSE
        With(Parser("parseStatement", tokens, condition.pos + 1), LAMBDA thenBranch :
            IF ~thenBranch.ok THEN thenBranch
            ELSE IF IsAt(tokens, thenBranch.pos, "ELSE")
            THEN With(Parser("parseStatement", tokens, thenBranch.pos + 1), LAMBDA elseBranch :
                     IF ~elseBranch.ok THEN elseBranch
                     ELSE POk(Node("IfStmt", s_if,
                                   <<condition.node, thenBranch.node, elseBranch.node>>),
                              elseBranch.pos))
            ELSE POk(Node("IfStmt", s_if, <<condition.node, thenBranch.node>>), thenBranch.pos)))

parseWhile(tokens, pos) ==
    IF ~IsAt(tokens, pos + 1, "L_PAREN")
    THEN PThrow(Error(ParseError, <<"Error: Expect '(' after 'while'.\n">>), pos + 1)
    ELSE
    With(Parser("parseExpression", tokens, pos + 2), LAMBDA condition :
        IF ~condition.ok THEN condition
        ELSE IF ~IsAt(tokens, condition.pos, "R_PAREN")
        THEN PThrow(Error(ParseError, <<"Error: Expect ')' after condition.\n">>), condition.pos)
        ELSE With(Parser("parseStatement", tokens, condition.pos + 1), LAMBDA body :
                 IF ~body.ok THEN body
                 ELSE POk(Node("WhileStmt", s_while, <<condition.node, body.node>>), body.pos)))

parseVarDecl(tokens, pos) ==
    IF ~IsAt(tokens, pos + 1, "IDENTIFIER")
    THEN PThrow(Error(ParseError, <<"Error: Expect variable name after 'var'.\n">>), pos + 1)
    ELSE
    With(Tok(tokens, pos + 1).lexeme, LAMBDA varName :
        With(IF IsAt(tokens, pos + 2, "EQUAL")
                    THEN Parser("parseExpression", tokens, pos + 3)
                    ELSE POk(NoNode, pos + 2), LAMBDA initExpr :
        IF ~initExpr.ok THEN initExpr
        ELSE IF ~IsAt(tokens, initExpr.pos, "SEMICOLON")
        THEN PThrow(Error(ParseError,
                 <<"Error: Expect ';' after variable declaration.\n">>), initExpr.pos)
        ELSE POk(Node("VarDecl", varName,
                      IF initExpr.node = NoNode THEN <<>> ELSE <<initExpr.node>>),
                 initExpr.pos + 1)))

parsePrint(tokens, pos) ==
    With(Parser("parseExpression", tokens, pos + 1), LAMBDA expr :
        IF ~expr.ok THEN expr
        ELSE IF ~IsAt(tokens, expr.pos, "SEMICOLON")
        THEN PThrow(Error(ParseError, <<"Error: Expect ';' after value.\n">>), expr.pos)
        ELSE POk(Node("PrintStmt", s_print, <<expr.node>>), expr.pos + 1))

\* an expression statement that consumes the token after the expression
parseExprStatement_skipNext(tokens, pos) ==
    With(Parser("parseExpression", tokens, pos), LAMBDA expr :
        IF ~expr.ok THEN expr ELSE POk(expr.node, expr.pos + 1))

\* an expression statement: the ';' is consumed when present
parseExprStatement(tokens, pos) ==
    With(Parser("parseExpression", tokens, pos), LAMBDA expr :
        IF ~expr.ok THEN expr
        ELSE IF IsAt(tokens, expr.pos, "SEMICOLON") THEN POk(expr.node, expr.pos + 1)
        ELSE expr)

parseStatement(tokens, pos) ==
    IF IsAt(tokens, pos, "RETURN") THEN parseReturn(tokens, pos)
    ELSE IF IsAt(tokens, pos, "FUN") THEN parseFunction(tokens, pos)
    ELSE IF IsAt(tokens, pos, "FOR") THEN parseFor(tokens, pos)
    ELSE IF IsAt(tokens, pos, "IF") THEN parseIf(tokens, pos)
    ELSE IF IsAt(tokens, pos, "WHILE") THEN parseWhile(tokens, pos)
    ELSE IF IsAt(tokens, pos, "L_BRACE")
    THEN parseBlockLoop(tokens, Leaf("Program", s_block), pos + 1)
    ELSE IF IsAt(tokens, pos, "VAR") THEN parseVarDecl(tokens, pos)
    ELSE IF IsAt(tokens, pos, "PRINT") THEN parsePrint(tokens, pos)
    ELSE parseExprStatement(tokens, pos)

\* a call of parseExpression or parseStatement through its forward
\* declaration
Parser(f, tokens, pos) ==
    IF f = "parseExpression" THEN parseExpression(tokens, pos)
    ELSE parseStatement(tokens, pos)

RECURSIVE parseProgramLoop(_, _, _)

\* a statement loop that returns the statements parsed before the error
parseProgramLoop_untilError(tokens, root, pos) ==
    IF InRange(tokens, pos) /\ Tok(tokens, pos).type # "EOF_OF_FILE"
    THEN With(Parser("parseStatement", tokens, pos), LAMBDA stmt :
             IF ~stmt.ok THEN POk(root, stmt.pos)
             ELSE parseProgramLoop(tokens, addChild(root, stmt.node), stmt.pos))
    ELSE POk(root, pos)

parseProgramLoop(tokens, root, pos) ==
    IF InRange(tokens, pos) /\ Tok(tokens, pos).type # "EOF_OF_FILE"
    THEN With(Parser("parseStatement", tokens, pos), LAMBDA stmt :
             IF ~stmt.ok THEN stmt
             ELSE parseProgramLoop(tokens, addChild(root, stmt.node), stmt.pos))
    ELSE POk(root, pos)

parseProgram(tokens, pos) == parseProgramLoop(tokens, Leaf("Program", s_program), pos)

parseAST(tokens) == parseProgram(tokens, 0)

(***************************************************************************)
(* Runtime values (Environment::Value): the variant over std::monostate,   *)
(* double, bool, std::string and FunctionPtr.  A FunctionPtr is the index  *)
(* of the LoxFunction object in the store.                                 *)
(***************************************************************************)
NilV == [kind |-> "nil", num |-> Rat(0, 1), b |-> FALSE, s |-> <<>>, f |-> 0]
NumV(x) == [kind |-> "double", num |-> x, b |-> FALSE, s |-> <<>>, f |-> 0]
BoolV(b) == [kind |-> "bool", num |-> Rat(0, 1), b |-> b, s |-> <<>>, f |-> 0]
StrV(s) == [kind |-> "string", num |-> Rat(0, 1), b |-> FALSE, s |-> s, f |-> 0]
FnV(f) == [kind |-> "function", num |-> Rat(0, 1), b |-> FALSE, s |-> <<>>, f |-> f]

isTruthy(v) ==
    IF v.kind = "nil" THEN FALSE
    ELSE IF v.kind = "bool" THEN v.b
    ELSE TRUE

LoxFunction(name, params, body, closure) ==
    [name |-> name, params |-> params, body |-> body, closure |-> closure]

(***************************************************************************)
(* Environments (Environment.cpp).  The store S holds the Environment      *)
(* objects (envs, addressed by index, enclosing = 0 for nullptr), the      *)
(* LoxFunction objects (funcs), the lines written to standard output       *)
(* (out), the record of the calls made (calls), the value time() returns   *)
(* (now), the count of loop iterations and calls made (steps) and the      *)
(* number of calls that have not returned (depth).                         *)
(***************************************************************************)
NoValues == [n \in {} |-> NilV]

Environment(enclosing) == [values |-> NoValues, enclosing |-> enclosing]

NewStore(now) ==
    [envs |-> <<Environment(0)>>, funcs |-> <<>>, out |-> <<>>, calls |-> <<>>,
     now |-> now, steps |-> 0, depth |-> 0]

GlobalEnv == 1

\* std::make_shared<Environment>(enclosing)
AllocEnv(S, enclosing) == [S EXCEPT !.envs = Append(@, Environment(enclosing))]
LastEnv(S) == Len(S.envs)

MapPut(m, name, value) ==
    [n \in DOMAIN m \cup {name} |-> IF n = name THEN value ELSE m[n]]

\* a define that writes the global environment
define_global(S, env, name, value) ==
    [S EXCEPT !.envs[GlobalEnv].values = MapPut(@, name, value)]

define(S, env, name, value) ==
    [S EXCEPT !.envs[env].values = MapPut(@, name, value)]

UndefinedVariable(name) == <<"Undefined variable '">> \o name \o <<"'.">>

\* get: found = FALSE stands for the std::runtime_error thrown
RECURSIVE get(_, _, _)
get(S, env, name) ==
    IF name \in DOMAIN S.envs[env].values
    THEN [found |-> TRUE, val |-> S.envs[env].values[name]]
    ELSE IF S.envs[env].enclosing # 0 THEN get(S, S.envs[env].enclosing, name)
    ELSE [found |-> FALSE, val |-> NilV]

\* an assignment that declares the name where it is not bound
assign_defines(S, env, name, value) ==
    [found |-> TRUE, S |-> define(S, env, name, value)]

\* assign: found = FALSE stands for the std::runtime_error thrown
RECURSIVE assign(_, _, _, _)
assign(S, env, name, value) ==
    IF name \in DOMAIN S.envs[env].values
    THEN [found |-> TRUE, S |-> [S EXCEPT !.envs[env].values[name] = value]]
    ELSE IF S.envs[env].enclosing # 0 THEN assign(S, S.envs[env].enclosing, name, value)
    ELSE [found |-> FALSE, S |-> S]

(***************************************************************************)
(* The evaluator (Evaluator.cpp).  evalNode yields the store it leaves,    *)
(* how it ended (ctl) and the value returned or carried:                   *)
(*   "ok"            it returned val                                       *)
(*   "Error"         it threw the Error err                                *)
(*   "runtime_error" it threw std::runtime_error with the message in err   *)
(*   "Return"        it threw ReturnException(val)                         *)
(*   "Diverged"      the bound MaxSteps or MaxDepth was reached            *)
(***************************************************************************)
MaxSteps == 8
MaxDepth == 3

ROk(S, val) == [S |-> S, ctl |-> "ok", val |-> val, err |-> NoError]
RError(S, err) == [S |-> S, ctl |-> "Error", val |-> NilV, err |-> err]
RRuntimeError(S, msg) ==
    [S |-> S, ctl |-> "runtime_error", val |-> NilV,
     err |-> [type |-> ErrorType("std::runtime_error", 1), message |-> msg]]
RReturn(S, val) == [S |-> S, ctl |-> "Return", val |-> val, err |-> NoError]
RDiverged(S) == [S |-> S, ctl |-> "Diverged", val |-> NilV, err |-> NoError]

\* the text operator<< writes for a value in the print statement
PrintForm(S, value) ==
    IF value.kind = "nil" THEN s_nil
    ELSE IF value.kind = "bool" THEN (IF value.b THEN s_true ELSE s_false)
    ELSE IF value.kind = "double"
    THEN IF RatIsInt(value.num) THEN IntToStr(value.num.n) ELSE ToStringG(value.num)
    ELSE IF value.kind = "function"
    THEN <<"<", "f", "n", " ">> \o S.funcs[value.f].name \o <<">">>
    ELSE value.s

\* the text the + operator joins to a string for a number operand
NumStr(x) == IF RatIsInt(x) THEN IntToStr(x.n) ELSE ToStringF(x)

\* the string concatenation branches of +: done = FALSE when none applies
\* and the code goes on to the numeric addition
PlusConcat(lv, rv) ==
    IF lv.kind = "string"
    THEN IF rv.kind = "string" THEN [done |-> TRUE, val |-> StrV(lv.s \o rv.s)]
         ELSE IF rv.kind = "double" THEN [done |-> TRUE, val |-> StrV(lv.s \o NumStr(rv.num))]
         ELSE IF rv.kind = "bool"
         THEN [done |-> TRUE, val |-> StrV(lv.s \o (IF rv.b THEN s_true ELSE s_false))]
         ELSE IF rv.kind = "nil" THEN [done |-> TRUE, val |-> StrV(lv.s \o s_nil)]
         ELSE [done |-> FALSE, val |-> NilV]
    ELSE IF lv.kind = "double"
    THEN IF rv.kind = "string" THEN [done |-> TRUE, val |-> StrV(NumStr(lv.num) \o rv.s)]
         ELSE [done |-> FALSE, val |-> NilV]
    ELSE IF lv.kind = "bool"
    THEN IF rv.kind = "string"
         THEN [done |-> TRUE, val |-> StrV((IF lv.b THEN s_true ELSE s_false) \o rv.s)]
         ELSE [done |-> FALSE, val |-> NilV]
    ELSE IF lv.kind = "nil"
    THEN IF rv.kind = "string" THEN [done |-> TRUE, val |-> StrV(s_nil \o rv.s)]
         ELSE [done |-> FALSE, val |-> NilV]
    ELSE [done |-> FALSE, val |-> NilV]

\* the binary arithmetic block applied to the operand values: the value,
\* or ok = FALSE for the OperandsMustBeNumbers thrown
Arithmetic(op, lv, rv) ==
    IF op = <<"+">> /\ PlusConcat(lv, rv).done
    THEN [ok |-> TRUE, val |-> PlusConcat(lv, rv).val]
    ELSE IF lv.kind # "double" \/ rv.kind # "double" THEN [ok |-> FALSE, val |-> NilV]
    ELSE IF op = <<"+">> THEN [ok |-> TRUE, val |-> NumV(RatAdd(lv.num, rv.num))]
    ELSE IF op = <<"-">> THEN [ok |-> TRUE, val |-> NumV(RatSub(lv.num, rv.num))]
    ELSE IF op = <<"*">> THEN [ok |-> TRUE, val |-> NumV(RatMul(lv.num, rv.num))]
    ELSE IF op = <<"/">> THEN [ok |-> TRUE, val |-> NumV(RatDiv(lv.num, rv.num))]
    ELSE [ok |-> TRUE, val |-> NumV(RatFmod(lv.num, rv.num))]

\* the equality block applied to the operand values: the bool eq
ValuesEqual(lv, rv) ==
    IF lv.kind = "double"
    THEN IF rv.kind = "double" THEN lv.num = rv.num ELSE FALSE
    ELSE IF lv.kind = "string"
    THEN IF rv.kind = "string" THEN lv.s = rv.s ELSE FALSE
    ELSE IF lv.kind = "bool"
    THEN IF rv.kind = "bool" THEN lv.b = rv.b ELSE FALSE
    ELSE IF lv.kind = "nil" /\ rv.kind = "nil" THEN TRUE
    ELSE FALSE

Equality(op, lv, rv) ==
    IF op = <<"=", "=">> THEN BoolV(ValuesEqual(lv, rv)) ELSE BoolV(~ValuesEqual(lv, rv))

\* the comparison block applied to the operand values
Comparison(op, lv, rv) ==
    IF lv.kind # rv.kind \/ lv.kind # "double" THEN [ok |-> FALSE, val |-> NilV]
    ELSE IF op = <<"<">> THEN [ok |-> TRUE, val |-> BoolV(RatLess(lv.num, rv.num))]
    ELSE IF op = <<">">> THEN [ok |-> TRUE, val |-> BoolV(RatLess(rv.num, lv.num))]
    ELSE IF op = <<"<", "=">> THEN [ok |-> TRUE, val |-> BoolV(~RatLess(rv.num, lv.num))]
    ELSE [ok |-> TRUE, val |-> BoolV(~RatLess(lv.num, rv.num))]

ArithmeticOps == {<<"+">>, <<"-">>, <<"*">>, <<"/">>, <<"%">>}
EqualityOps == {<<"=", "=">>, <<"!", "=">>}
ComparisonOps == {<<"<">>, <<">">>, <<"<", "=">>, <<">", "=">>}

LineSuffix(i) == <<"\n[line ">> \o IntToStr(i + 1) \o <<"]">>

RECURSIVE evalNode(_, _, _)
RECURSIVE evalProgramLoop(_, _, _, _, _)
RECURSIVE evalWhileLoop(_, _, _)
RECURSIVE evalArguments(_, _, _, _, _, _)

\* evalFunction that stores the global environment as the closure
evalFunction_globalClosure(node, env, S) ==
    LET children == node.children
        params == [i \in 1..(Len(children) - 1) |-> children[i].value]
        body == children[Len(children)]
        func == LoxFunction(node.value, params, body, GlobalEnv)
        S1 == [S EXCEPT !.funcs = Append(@, func)]
        fv == FnV(Len(S1.funcs))
    IN  ROk(define(S1, env, node.value, fv), fv)

\* case Type::Function
evalFunction(node, env, S) ==
    LET children == node.children
        params == [i \in 1..(Len(children) - 1) |-> children[i].value]
        body == children[Len(children)]
        func == LoxFunction(node.value, params, body, env)
        S1 == [S EXCEPT !.funcs = Append(@, func)]
        fv == FnV(Len(S1.funcs))
    IN  ROk(define(S1, env, node.value, fv), fv)

\* case Type::VarDecl
evalVarDecl(node, env, S) ==
    IF node.children # <<>>
    THEN LET r == evalNode(node.children[1], env, S)
         IN  IF r.ctl # "ok" THEN r
             ELSE ROk(define(r.S, env, node.value, r.val), r.val)
    ELSE ROk(define(S, env, node.value, NilV), NilV)

\* case Type::Identifier
evalIdentifier(node, env, S) ==
    LET g == get(S, env, node.value)
    IN  IF g.found THEN ROk(S, g.val)
        ELSE RRuntimeError(S, UndefinedVariable(node.value))

\* case Type::BinaryOp, op "=" with two children
evalAssign(node, env, S) ==
    LET target == node.children[1]
    IN  IF target.type # "Identifier"
        THEN RError(S, Error(InvalidAssignmentTarget, <<"Invalid assignment target.">>))
        ELSE LET r == evalNode(node.children[2], env, S)
             IN  IF r.ctl # "ok" THEN r
                 ELSE LET a == assign(r.S, env, target.value, r.val)
                      IN  IF a.found THEN ROk(a.S, r.val)
                          ELSE RRuntimeError(r.S, UndefinedVariable(target.value))

\* case Type::BinaryOp, op "or" / "and" with two children
evalOr(node, env, S) ==
    LET left == evalNode(node.children[1], env, S)
    IN  IF left.ctl # "ok" THEN left
        ELSE IF isTruthy(left.val) THEN left
        ELSE evalNode(node.children[2], env, left.S)

\* evalAnd that evaluates the right operand whatever the left one is
evalAnd_eager(node, env, S) ==
    LET left == evalNode(node.children[1], env, S)
    IN  IF left.ctl # "ok" THEN left
        ELSE LET right == evalNode(node.children[2], env, left.S)
             IN  IF right.ctl # "ok" THEN right
                 ELSE IF ~isTruthy(left.val) THEN ROk(right.S, left.val)
                 ELSE right

evalAnd(node, env, S) ==
    LET left == evalNode(node.children[1], env, S)
    IN  IF left.ctl # "ok" THEN left
        ELSE IF ~isTruthy(left.val) THEN left
        ELSE evalNode(node.children[2], env, left.S)

\* case Type::BinaryOp, op "!" / "-" with one child
evalNot(node, env, S) ==
    LET v == evalNode(node.children[1], env, S)
    IN  IF v.ctl # "ok" THEN v ELSE ROk(v.S, BoolV(~isTruthy(v.val)))

evalNegate(node, env, S) ==
    LET operand == evalNode(node.children[1], env, S)
    IN  IF operand.ctl # "ok" THEN operand
        ELSE IF operand.val.kind # "double"
        THEN RError(operand.S, Error(OperandMustBeNumber, <<"Operand must be a number.">>))
        ELSE ROk(operand.S, NumV(RatNeg(operand.val.num)))

\* case Type::BinaryOp with two children and an arithmetic, equality or
\* comparison operator: left operand, then right operand, then the block
evalBinary(node, env, S) ==
    LET op == node.value
        lv == evalNode(node.children[1], env, S)
    IN  IF lv.ctl # "ok" THEN lv ELSE
    LET rv == evalNode(node.children[2], env, lv.S)
    IN  IF rv.ctl # "ok" THEN rv
        ELSE IF op \in ArithmeticOps
        THEN LET a == Arithmetic(op, lv.val, rv.val)
             IN  IF a.ok THEN ROk(rv.S, a.val)
                 ELSE RError(rv.S, Error(OperandsMustBeNumbers, <<"Operands must be numbers.">>))
        ELSE IF op \in EqualityOps
        THEN ROk(rv.S, Equality(op, lv.val, rv.val))
        ELSE LET c == Comparison(op, lv.val, rv.val)
             IN  IF c.ok THEN ROk(rv.S, c.val)
                 ELSE RError(rv.S, Error(OperandsMustBeNumbers, <<"Operands must be numbers.">>))

\* case Type::BinaryOp
evalBinaryOp(node, env, S) ==
    LET op == node.value
        n == Len(node.children)
    IN  IF op = <<"=">> /\ n = 2 THEN evalAssign(node, env, S)
        ELSE IF op = s_or /\ n = 2 THEN evalOr(node, env, S)
        ELSE IF op = s_and /\ n = 2 THEN evalAnd(node, env, S)
        ELSE IF op = <<"!">> /\ n = 1 THEN evalNot(node, env, S)
        ELSE IF op = <<"-">> /\ n = 1 THEN evalNegate(node, env, S)
        ELSE IF op = s_group /\ n = 1 THEN evalNode(node.children[1], env, S)
        ELSE IF n = 2 /\ op \in ArithmeticOps \cup EqualityOps \cup ComparisonOps
        THEN evalBinary(node, env, S)
        ELSE ROk(S, NilV)

\* evalProgramStep without the catch clause for std::runtime_error
evalProgramStep_uncaught(children, i, execEnv, S) ==
    LET r == evalNode(children[i + 1], execEnv, S)
    IN  IF r.ctl = "Error"
        THEN RError(r.S, Error(r.err.type, r.err.message \o LineSuffix(i)))
        ELSE r

\* one iteration of the statement loop of case Type::Program: statement i
\* (0-based) in execEnv, with the two catch clauses
evalProgramStep(children, i, execEnv, S) ==
    LET r == evalNode(children[i + 1], execEnv, S)
    IN  IF r.ctl = "Error"
        THEN RError(r.S, Error(r.err.type, r.err.message \o LineSuffix(i)))
        ELSE IF r.ctl = "runtime_error"
        THEN RError(r.S, Error(RuntimeError, r.err.message \o LineSuffix(i)))
        ELSE r

\* a statement loop that goes on with the next statement after an error
RECURSIVE evalProgramLoop_resume(_, _, _, _, _)
evalProgramLoop_resume(children, i, execEnv, S, last) ==
    IF i >= Len(children) THEN ROk(S, last)
    ELSE LET r == evalProgramStep(children, i, execEnv, S)
         IN  IF r.ctl \in {"Diverged", "Return"} THEN r
             ELSE evalProgramLoop_resume(children, i + 1, execEnv, r.S,
                      IF r.ctl = "ok" THEN r.val ELSE last)

evalProgramLoop(children, i, execEnv, S, last) ==
    IF i >= Len(children) THEN ROk(S, last)
    ELSE LET r == evalProgramStep(children, i, execEnv, S)
         IN  IF r.ctl # "ok" THEN r
             ELSE evalProgramLoop(children, i + 1, execEnv, r.S, r.val)

\* evalProgram that runs a block in the environment it was given
evalProgram_noScope(node, env, S) ==
    evalProgramLoop(node.children, 0, env, S, NilV)

\* case Type::Program
evalProgram(node, env, S) ==
    LET isBlock == (node.value = s_block)
        S1 == IF isBlock THEN AllocEnv(S, env) ELSE S
        execEnv == IF isBlock THEN LastEnv(S1) ELSE env
    IN  evalProgramLoop(node.children, 0, execEnv, S1, NilV)

\* case Type::PrintStmt
evalPrint(node, env, S) ==
    IF node.children # <<>>
    THEN LET value == evalNode(node.children[1], env, S)
         IN  IF value.ctl # "ok" THEN value
             ELSE ROk([value.S EXCEPT !.out = Append(@, PrintForm(value.S, value.val))], NilV)
    ELSE ROk(S, NilV)

\* case Type::IfStmt
evalIf(node, env, S) ==
    LET cond == evalNode(node.children[1], env, S)
    IN  IF cond.ctl # "ok" THEN cond
        ELSE IF isTruthy(cond.val) THEN evalNode(node.children[2], env, cond.S)
        ELSE IF Len(node.children) = 3 THEN evalNode(node.children[3], env, cond.S)
        ELSE ROk(cond.S, NilV)

\* case Type::WhileStmt
evalWhileLoop(node, env, S) ==
    IF S.steps >= MaxSteps THEN RDiverged(S) ELSE
    LET cond == evalNode(node.children[1], env, [S EXCEPT !.steps = @ + 1])
    IN  IF cond.ctl # "ok" THEN cond
        ELSE IF ~isTruthy(cond.val) THEN ROk(cond.S, NilV)
        ELSE LET body == evalNode(node.children[2], env, cond.S)
             IN  IF body.ctl # "ok" THEN body
                 ELSE evalWhileLoop(node, env, body.S)

\* evalReturn that returns the value instead of throwing ReturnException
evalReturn_noThrow(node, env, S) ==
    IF node.children # <<>>
    THEN evalNode(node.children[1], env, S)
    ELSE ROk(S, NilV)

\* case Type::ReturnStmt
evalReturn(node, env, S) ==
    IF node.children # <<>>
    THEN LET retVal == evalNode(node.children[1], env, S)
         IN  IF retVal.ctl # "ok" THEN retVal ELSE RReturn(retVal.S, retVal.val)
    ELSE RReturn(S, NilV)

\* the loop of case Type::Call that evaluates argument i in the caller's
\* env and defines parameter i in localEnv
evalArguments(args, i, function, env, localEnv, S) ==
    IF i >= Len(args) THEN ROk(S, NilV)
    ELSE LET val == evalNode(args[i + 1], env, S)
         IN  IF val.ctl # "ok" THEN val
             ELSE evalArguments(args, i + 1, function, env, localEnv,
                                define(val.S, localEnv, function.params[i + 1], val.val))

\* the environment of the caller as the enclosing environment of a call
CallEnv_caller(function, env) == env

\* std::make_shared<Environment>(function->closure)
CallEnv(function, env) == function.closure

\* a call that gives more or fewer arguments than parameters is let through
\* when it gives fewer
ArgumentCount_atMost(args, function) == Len(args) <= Len(function.params)

\* args.size() != function->params.size(), negated
ArgumentCount(args, function) == Len(args) = Len(function.params)

\* case Type::Call
evalCall(node, env, S) ==
    LET name == node.value
    IN  IF name = s_clock THEN ROk(S, NumV(Rat(S.now, 1))) ELSE
    LET callee == get(S, env, name)
    IN  IF ~callee.found THEN RRuntimeError(S, UndefinedVariable(name))
        ELSE IF callee.val.kind # "function"
        THEN RError(S, Error(CallOnNonFunction,
                 <<"Attempt to call non-function '">> \o name \o <<"'.">>))
        ELSE
        LET function == S.funcs[callee.val.f]
            args == node.children
        IN  IF ~ArgumentCount(args, function)
            THEN RError(S, Error(ArgumentCountMismatch,
                     <<"Expected ">> \o IntToStr(Len(function.params))
                     \o <<" args but got ">> \o IntToStr(Len(args)) \o <<".">>))
            ELSE IF S.steps >= MaxSteps \/ S.depth >= MaxDepth THEN RDiverged(S)
            ELSE
            LET S1 == AllocEnv([S EXCEPT !.steps = @ + 1, !.depth = @ + 1],
                               CallEnv(function, env))
                localEnv == LastEnv(S1)
                S2 == [S1 EXCEPT !.calls = Append(@,
                          [fn |-> callee.val.f, localEnv |-> localEnv, callerEnv |-> env])]
                bound == evalArguments(args, 0, function, env, localEnv, S2)
            IN  IF bound.ctl # "ok" THEN bound
                ELSE LET body == evalNode(function.body, localEnv, bound.S)
                         S3 == [body.S EXCEPT !.depth = S.depth]
                     IN  IF body.ctl = "ok" THEN ROk(S3, NilV)
                         ELSE IF body.ctl = "Return" THEN ROk(S3, body.val)
                         ELSE body

evalNode(node, env, S) ==
    CASE node.type = "Function" -> evalFunction(node, env, S)
      [] node.type = "VarDecl" -> evalVarDecl(node, env, S)
      [] node.type = "Identifier" -> evalIdentifier(node, env, S)
      [] node.type = "Number" -> ROk(S, NumV(Stod(node.value)))
      [] node.type = "Boolean" -> ROk(S, BoolV(node.value = s_true))
      [] node.type = "Nil" -> ROk(S, NilV)
      [] node.type = "String" -> ROk(S, StrV(node.value))
      [] node.type = "BinaryOp" -> evalBinaryOp(node, env, S)
      [] node.type = "Program" -> evalProgram(node, env, S)
      [] node.type = "PrintStmt" -> evalPrint(node, env, S)
      [] node.type = "IfStmt" -> evalIf(node, env, S)
      [] node.type = "WhileStmt" -> evalWhileLoop(node, env, S)
      [] node.type = "ReturnStmt" -> evalReturn(node, env, S)
      [] node.type = "Call" -> evalCall(node, env, S)
      [] OTHER -> ROk(S, NilV)

(***************************************************************************)
(* The process: main (main.cpp) with the command run, and Run::run         *)
(* (Run.cpp).                                                              *)
(*   input     the file given on the command line: its text (src) and,     *)
(*             for the properties, the family it was drawn from (tag),     *)
(*             its parameter (k) and what the specification of the         *)
(*             language expects of it (expOut, expCode)                    *)
(*   pc        "start"    before Tokenizer::getTokens                      *)
(*             "lexed"    in Run::run, before Parser::parseAST             *)
(*             "running"  in the statement loop of the root Program node   *)
(*             "exited"   the process has ended                            *)
(*             "diverged" a bound of the evaluator was reached             *)
(*   lexer     the module-level state of the lexer                         *)
(*   ast       the root node parseAST returned                             *)
(*   idx       the index i of the statement loop of the root Program node  *)
(*   store     environments, functions and standard output                 *)
(*   stderr    the diagnostics written by Run::run                         *)
(*   status    how the process ended: "exit" (main returned exitCode),     *)
(*             "abort" (std::terminate after an uncaught exception),       *)
(*             "undefined" (out-of-bounds read)                            *)
(*   exitCode  the value main returned                                     *)
(*   thrown    the exception that ended the run, if any                    *)
(***************************************************************************)
VARIABLES input, pc, lexer, ast, idx, store, stderr, status, exitCode, thrown

vars == <<input, pc, lexer, ast, idx, store, stderr, status, exitCode, thrown>>

NoThrow == [ctl |-> "none", err |-> NoError]

Program(tag, k, src, expOut, expCode) ==
    [tag |-> tag, k |-> k, src |-> src, expOut |-> expOut, expCode |-> expCode]

\* a Lex that hands the tokens on whatever exit code the lexer returned
Lex_anyExitCode ==
    /\ pc = "start"
    /\ \E L \in {getTokens(input.src, lexer)} : lexer' = L
    /\ pc' = "lexed"
    /\ UNCHANGED <<input, ast, idx, store, stderr, thrown, status, exitCode>>

\* main, command run: Tokenizer::getTokens; a lexer exit code other than 0
\* is returned and Run::run is not called
Lex ==
    /\ pc = "start"
    /\ \E L \in {getTokens(input.src, lexer)} :
           /\ lexer' = L
           /\ IF L.exitCode = 0
              THEN /\ pc' = "lexed"
                   /\ UNCHANGED <<status, exitCode>>
              ELSE /\ pc' = "exited"
                   /\ status' = "exit"
                   /\ exitCode' = L.exitCode
    /\ UNCHANGED <<input, ast, idx, store, stderr, thrown>>

\* Run::run: Parser::parseAST; an Error thrown is caught by the first catch
\* clause, which writes the message and returns the code of the error
Parse ==
    /\ pc = "lexed"
    /\ \E p \in {parseAST(lexer.tokens)} :
           IF p.ok
           THEN /\ ast' = p.node
                /\ pc' = "running"
                /\ UNCHANGED <<stderr, status, exitCode, thrown>>
           ELSE /\ pc' = "exited"
                /\ thrown' = [ctl |-> "Error", err |-> p.err]
                /\ IF p.err = OutOfBounds
                   THEN /\ status' = "undefined"
                        /\ UNCHANGED <<stderr, exitCode>>
                   ELSE /\ status' = "exit"
                        /\ stderr' = Append(stderr, p.err.message)
                        /\ exitCode' = p.err.type.code
                /\ UNCHANGED ast
    /\ UNCHANGED <<input, lexer, idx, store>>

\* Run::run: Evaluator::evalNode(ast) with the global environment, one
\* iteration of the statement loop of the root Program node.  An Error is
\* caught by the first catch clause of Run::run, any other std::exception
\* by the second; a ReturnException is caught nowhere.
ExecStatement ==
    /\ pc = "running"
    /\ idx < Len(ast.children)
    /\ \E r \in {evalProgramStep(ast.children, idx, GlobalEnv, store)} :
           /\ store' = r.S
           /\ IF r.ctl = "ok"
              THEN /\ idx' = idx + 1
                   /\ UNCHANGED <<pc, stderr, status, exitCode, thrown>>
              ELSE IF r.ctl = "Diverged"
              THEN /\ pc' = "diverged"
                   /\ UNCHANGED <<idx, stderr, status, exitCode, thrown>>
              ELSE /\ pc' = "exited"
                   /\ thrown' = [ctl |-> r.ctl, err |-> r.err]
                   /\ UNCHANGED idx
                   /\ IF r.ctl = "Error"
                      THEN /\ status' = "exit"
                           /\ stderr' = Append(stderr, r.err.message)
                           /\ exitCode' = r.err.type.code
                      ELSE IF r.ctl = "runtime_error"
                      THEN /\ status' = "exit"
                           /\ stderr' = Append(stderr, r.err.message)
                           /\ exitCode' = 1
                      ELSE /\ status' = "abort"
                           /\ UNCHANGED <<stderr, exitCode>>
    /\ UNCHANGED <<input, lexer, ast>>

\* Run::run returns 0 when the statement loop has ended
Finish ==
    /\ pc = "running"
    /\ idx = Len(ast.children)
    /\ pc' = "exited"
    /\ status' = "exit"
    /\ exitCode' = 0
    /\ UNCHANGED <<input, lexer, ast, idx, store, stderr, thrown>>

(***************************************************************************)
(* The files given to the process.  Each definition below is the text of  *)
(* a program, character by character; the comment above it shows it.      *)
(***************************************************************************)
\* print 1 + 2 * 3;
Src_arith ==
    <<"p", "r", "i", "n", "t", " ", "1", " ", "+", " ", "2", " ", "*", " ",
      "3", ";">>

\* var a; print a = 3; print a;
Src_assignexpr ==
    <<"v", "a", "r", " ", "a", ";", " ", "p", "r", "i", "n", "t", " ", "a",
      " ", "=", " ", "3", ";", " ", "p", "r", "i", "n", "t", " ", "a", ";">>

\* fun fact(n){ if (n<=1) return 1; return n*fact(n-1);} print fact(3);
Src_fact ==
    <<"f", "u", "n", " ", "f", "a", "c", "t", "(", "n", ")", "{", " ", "i",
      "f", " ", "(", "n", "<", "=", "1", ")", " ", "r", "e", "t", "u", "r",
      "n", " ", "1", ";", " ", "r", "e", "t", "u", "r", "n", " ", "n", "*",
      "f", "a", "c", "t", "(", "n", "-", "1", ")", ";", "}", " ", "p", "r",
      "i", "n", "t", " ", "f", "a", "c", "t", "(", "3", ")", ";">>

\* print "a" + 1; print 1 + "a"; print true + "!";
Src_concat ==
    <<"p", "r", "i", "n", "t", " ", QUOTE, "a", QUOTE, " ", "+", " ", "1",
      ";", " ", "p", "r", "i", "n", "t", " ", "1", " ", "+", " ", QUOTE, "a",
      QUOTE, ";", " ", "p", "r", "i", "n", "t", " ", "t", "r", "u", "e", " ",
      "+", " ", QUOTE, "!", QUOTE, ";">>

\* for (var i = 0; i < 3; i = i + 1) print i;
Src_forloop ==
    <<"f", "o", "r", " ", "(", "v", "a", "r", " ", "i", " ", "=", " ", "0",
      ";", " ", "i", " ", "<", " ", "3", ";", " ", "i", " ", "=", " ", "i",
      " ", "+", " ", "1", ")", " ", "p", "r", "i", "n", "t", " ", "i", ";">>

\* print 3 / 2; print 7 % 4; print -0.25 * 2;
\* // done
Src_halves ==
    <<"p", "r", "i", "n", "t", " ", "3", " ", "/", " ", "2", ";", " ", "p",
      "r", "i", "n", "t", " ", "7", " ", "%", " ", "4", ";", " ", "p", "r",
      "i", "n", "t", " ", "-", "0", ".", "2", "5", " ", "*", " ", "2", ";",
      NL, "/", "/", " ", "d", "o", "n", "e">>

\* (the empty file)
Src_empty ==
    <<>>

\* print 1 @ 2;
Src_lex_char ==
    <<"p", "r", "i", "n", "t", " ", "1", " ", "@", " ", "2", ";">>

\* print 1;
\* print "abc
Src_lex_string ==
    <<"p", "r", "i", "n", "t", " ", "1", ";", NL, "p", "r", "i", "n", "t",
      " ", QUOTE, "a", "b", "c">>

\* print "a"; #
Src_lex_hash ==
    <<"p", "r", "i", "n", "t", " ", QUOTE, "a", QUOTE, ";", " ", "#">>

\* print (1 + 2;
Src_parse_paren ==
    <<"p", "r", "i", "n", "t", " ", "(", "1", " ", "+", " ", "2", ";">>

\* print ;
Src_parse_noexpr ==
    <<"p", "r", "i", "n", "t", " ", ";">>

\* var 1 = 2;
Src_parse_varname ==
    <<"v", "a", "r", " ", "1", " ", "=", " ", "2", ";">>

\* { print 1;
Src_parse_brace ==
    <<"{", " ", "p", "r", "i", "n", "t", " ", "1", ";">>

\* print 1; print 2
Src_parse_semicolon ==
    <<"p", "r", "i", "n", "t", " ", "1", ";", " ", "p", "r", "i", "n", "t",
      " ", "2">>

\* print 1; class A {}
Src_parse_class ==
    <<"p", "r", "i", "n", "t", " ", "1", ";", " ", "c", "l", "a", "s", "s",
      " ", "A", " ", "{", "}">>

\* print 1; 1 = 2;
Src_target_literal ==
    <<"p", "r", "i", "n", "t", " ", "1", ";", " ", "1", " ", "=", " ", "2",
      ";">>

\* var a; (a) = 3;
Src_target_group ==
    <<"v", "a", "r", " ", "a", ";", " ", "(", "a", ")", " ", "=", " ", "3",
      ";">>

\* var a; a + 1 = 2;
Src_target_sum ==
    <<"v", "a", "r", " ", "a", ";", " ", "a", " ", "+", " ", "1", " ", "=",
      " ", "2", ";">>

\* print 1 + true;
Src_operand_plus ==
    <<"p", "r", "i", "n", "t", " ", "1", " ", "+", " ", "t", "r", "u", "e",
      ";">>

\* print -"a";
Src_operand_neg ==
    <<"p", "r", "i", "n", "t", " ", "-", QUOTE, "a", QUOTE, ";">>

\* print 1 < "a";
Src_operand_less ==
    <<"p", "r", "i", "n", "t", " ", "1", " ", "<", " ", QUOTE, "a", QUOTE, ";">>

\* print "a" * 2;
Src_operand_times ==
    <<"p", "r", "i", "n", "t", " ", QUOTE, "a", QUOTE, " ", "*", " ", "2", ";">>

\* print 1; print nil + 1; print 2;
Src_operand_mid ==
    <<"p", "r", "i", "n", "t", " ", "1", ";", " ", "p", "r", "i", "n", "t",
      " ", "n", "i", "l", " ", "+", " ", "1", ";", " ", "p", "r", "i", "n",
      "t", " ", "2", ";">>

\* fun f(){ return y; } print f();
Src_undef_infun ==
    <<"f", "u", "n", " ", "f", "(", ")", "{", " ", "r", "e", "t", "u", "r",
      "n", " ", "y", ";", " ", "}", " ", "p", "r", "i", "n", "t", " ", "f",
      "(", ")", ";">>

\* print 1; g();
Src_undef_callee ==
    <<"p", "r", "i", "n", "t", " ", "1", ";", " ", "g", "(", ")", ";">>

\* fun f(){ y = 1; } f(); print 2;
Src_undef_assign_infun ==
    <<"f", "u", "n", " ", "f", "(", ")", "{", " ", "y", " ", "=", " ", "1",
      ";", " ", "}", " ", "f", "(", ")", ";", " ", "p", "r", "i", "n", "t",
      " ", "2", ";">>

\* fun f(a){ print a; } f();
Src_argcount_few ==
    <<"f", "u", "n", " ", "f", "(", "a", ")", "{", " ", "p", "r", "i", "n",
      "t", " ", "a", ";", " ", "}", " ", "f", "(", ")", ";">>

\* fun f(){ print 1; } f(1, 2);
Src_argcount_many ==
    <<"f", "u", "n", " ", "f", "(", ")", "{", " ", "p", "r", "i", "n", "t",
      " ", "1", ";", " ", "}", " ", "f", "(", "1", ",", " ", "2", ")", ";">>

\* var v = 1; v();
Src_noncall ==
    <<"v", "a", "r", " ", "v", " ", "=", " ", "1", ";", " ", "v", "(", ")",
      ";">>

\* var x = "global"; fun show(){ print x; } fun caller(){ var x = "local"; show(); } caller();
Src_lexical_read ==
    <<"v", "a", "r", " ", "x", " ", "=", " ", QUOTE, "g", "l", "o", "b", "a",
      "l", QUOTE, ";", " ", "f", "u", "n", " ", "s", "h", "o", "w", "(", ")",
      "{", " ", "p", "r", "i", "n", "t", " ", "x", ";", " ", "}", " ", "f",
      "u", "n", " ", "c", "a", "l", "l", "e", "r", "(", ")", "{", " ", "v",
      "a", "r", " ", "x", " ", "=", " ", QUOTE, "l", "o", "c", "a", "l",
      QUOTE, ";", " ", "s", "h", "o", "w", "(", ")", ";", " ", "}", " ", "c",
      "a", "l", "l", "e", "r", "(", ")", ";">>

\* fun g(){ print y; } fun f(){ var y = 1; g(); } f();
Src_caller_unreadable ==
    <<"f", "u", "n", " ", "g", "(", ")", "{", " ", "p", "r", "i", "n", "t",
      " ", "y", ";", " ", "}", " ", "f", "u", "n", " ", "f", "(", ")", "{",
      " ", "v", "a", "r", " ", "y", " ", "=", " ", "1", ";", " ", "g", "(",
      ")", ";", " ", "}", " ", "f", "(", ")", ";">>

\* var y = 0; fun g(){ y = 2; } fun f(){ var y = 1; g(); print y; } f(); print y;
Src_caller_unassignable ==
    <<"v", "a", "r", " ", "y", " ", "=", " ", "0", ";", " ", "f", "u", "n",
      " ", "g", "(", ")", "{", " ", "y", " ", "=", " ", "2", ";", " ", "}",
      " ", "f", "u", "n", " ", "f", "(", ")", "{", " ", "v", "a", "r", " ",
      "y", " ", "=", " ", "1", ";", " ", "g", "(", ")", ";", " ", "p", "r",
      "i", "n", "t", " ", "y", ";", " ", "}", " ", "f", "(", ")", ";", " ",
      "p", "r", "i", "n", "t", " ", "y", ";">>

\* var t = 0; fun p(a, b){ print a; print b; } fun c(){ var t = 1; p(t = t + 1, t = t * 10); print t; } c(); print t;
Src_args_order ==
    <<"v", "a", "r", " ", "t", " ", "=", " ", "0", ";", " ", "f", "u", "n",
      " ", "p", "(", "a", ",", " ", "b", ")", "{", " ", "p", "r", "i", "n",
      "t", " ", "a", ";", " ", "p", "r", "i", "n", "t", " ", "b", ";", " ",
      "}", " ", "f", "u", "n", " ", "c", "(", ")", "{", " ", "v", "a", "r",
      " ", "t", " ", "=", " ", "1", ";", " ", "p", "(", "t", " ", "=", " ",
      "t", " ", "+", " ", "1", ",", " ", "t", " ", "=", " ", "t", " ", "*",
      " ", "1", "0", ")", ";", " ", "p", "r", "i", "n", "t", " ", "t", ";",
      " ", "}", " ", "c", "(", ")", ";", " ", "p", "r", "i", "n", "t", " ",
      "t", ";">>

\* fun f(){ var i = 0; while (true) { if (i == 2) { return i; } i = i + 1; } print "no"; } print f(); print "end";
Src_return_loop ==
    <<"f", "u", "n", " ", "f", "(", ")", "{", " ", "v", "a", "r", " ", "i",
      " ", "=", " ", "0", ";", " ", "w", "h", "i", "l", "e", " ", "(", "t",
      "r", "u", "e", ")", " ", "{", " ", "i", "f", " ", "(", "i", " ", "=",
      "=", " ", "2", ")", " ", "{", " ", "r", "e", "t", "u", "r", "n", " ",
      "i", ";", " ", "}", " ", "i", " ", "=", " ", "i", " ", "+", " ", "1",
      ";", " ", "}", " ", "p", "r", "i", "n", "t", " ", QUOTE, "n", "o",
      QUOTE, ";", " ", "}", " ", "p", "r", "i", "n", "t", " ", "f", "(", ")",
      ";", " ", "p", "r", "i", "n", "t", " ", QUOTE, "e", "n", "d", QUOTE, ";">>

\* fun inner(){ return 1; print "no"; } fun outer(){ var r = inner(); print "outer"; return r + 1; print "no"; } print outer();
Src_return_inner ==
    <<"f", "u", "n", " ", "i", "n", "n", "e", "r", "(", ")", "{", " ", "r",
      "e", "t", "u", "r", "n", " ", "1", ";", " ", "p", "r", "i", "n", "t",
      " ", QUOTE, "n", "o", QUOTE, ";", " ", "}", " ", "f", "u", "n", " ",
      "o", "u", "t", "e", "r", "(", ")", "{", " ", "v", "a", "r", " ", "r",
      " ", "=", " ", "i", "n", "n", "e", "r", "(", ")", ";", " ", "p", "r",
      "i", "n", "t", " ", QUOTE, "o", "u", "t", "e", "r", QUOTE, ";", " ",
      "r", "e", "t", "u", "r", "n", " ", "r", " ", "+", " ", "1", ";", " ",
      "p", "r", "i", "n", "t", " ", QUOTE, "n", "o", QUOTE, ";", " ", "}",
      " ", "p", "r", "i", "n", "t", " ", "o", "u", "t", "e", "r", "(", ")",
      ";">>

\* fun g(){ return; print "no"; } fun h(){ } print g(); print h();
Src_return_nil ==
    <<"f", "u", "n", " ", "g", "(", ")", "{", " ", "r", "e", "t", "u", "r",
      "n", ";", " ", "p", "r", "i", "n", "t", " ", QUOTE, "n", "o", QUOTE,
      ";", " ", "}", " ", "f", "u", "n", " ", "h", "(", ")", "{", " ", "}",
      " ", "p", "r", "i", "n", "t", " ", "g", "(", ")", ";", " ", "p", "r",
      "i", "n", "t", " ", "h", "(", ")", ";">>

\* fun f(n){ if (n) return "then"; else { return "else"; } print "no"; } print f(true); print f(nil);
Src_return_else ==
    <<"f", "u", "n", " ", "f", "(", "n", ")", "{", " ", "i", "f", " ", "(",
      "n", ")", " ", "r", "e", "t", "u", "r", "n", " ", QUOTE, "t", "h", "e",
      "n", QUOTE, ";", " ", "e", "l", "s", "e", " ", "{", " ", "r", "e", "t",
      "u", "r", "n", " ", QUOTE, "e", "l", "s", "e", QUOTE, ";", " ", "}",
      " ", "p", "r", "i", "n", "t", " ", QUOTE, "n", "o", QUOTE, ";", " ",
      "}", " ", "p", "r", "i", "n", "t", " ", "f", "(", "t", "r", "u", "e",
      ")", ";", " ", "p", "r", "i", "n", "t", " ", "f", "(", "n", "i", "l",
      ")", ";">>

\* return 1;
Src_top_return_value ==
    <<"r", "e", "t", "u", "r", "n", " ", "1", ";">>

\* print 1; return; print 2;
Src_top_return_bare ==
    <<"p", "r", "i", "n", "t", " ", "1", ";", " ", "r", "e", "t", "u", "r",
      "n", ";", " ", "p", "r", "i", "n", "t", " ", "2", ";">>

\* { return; }
Src_top_return_block ==
    <<"{", " ", "r", "e", "t", "u", "r", "n", ";", " ", "}">>

\* if (true) return 5;
Src_top_return_if ==
    <<"i", "f", " ", "(", "t", "r", "u", "e", ")", " ", "r", "e", "t", "u",
      "r", "n", " ", "5", ";">>

\* piece:  { 
Src_open ==
    <<" ", "{", " ">>

\* piece:  } 
Src_close ==
    <<" ", "}", " ">>

\* piece: print x;
Src_print_x ==
    <<"p", "r", "i", "n", "t", " ", "x", ";">>

\* piece: x = 1;
Src_assign_x ==
    <<"x", " ", "=", " ", "1", ";">>

\* piece: fun mk(){var c=0; fun inc(){c=c+1; return c;} return inc;} var f=mk();
Src_counter ==
    <<"f", "u", "n", " ", "m", "k", "(", ")", "{", "v", "a", "r", " ", "c",
      "=", "0", ";", " ", "f", "u", "n", " ", "i", "n", "c", "(", ")", "{",
      "c", "=", "c", "+", "1", ";", " ", "r", "e", "t", "u", "r", "n", " ",
      "c", ";", "}", " ", "r", "e", "t", "u", "r", "n", " ", "i", "n", "c",
      ";", "}", " ", "v", "a", "r", " ", "f", "=", "m", "k", "(", ")", ";">>

\* piece:  print f();
Src_print_f ==
    <<" ", "p", "r", "i", "n", "t", " ", "f", "(", ")", ";">>

\* piece: var x = 1;
Src_hidden_decl ==
    <<"v", "a", "r", " ", "x", " ", "=", " ", "1", ";">>

\* piece: var x = 5;
Src_shadow_outer ==
    <<"v", "a", "r", " ", "x", " ", "=", " ", "5", ";">>

\* piece: var x = x + 1; print x;
Src_shadow_inner ==
    <<"v", "a", "r", " ", "x", " ", "=", " ", "x", " ", "+", " ", "1", ";",
      " ", "p", "r", "i", "n", "t", " ", "x", ";">>

\* piece: var x = 1;
Src_assign_outer ==
    <<"v", "a", "r", " ", "x", " ", "=", " ", "1", ";">>

\* piece: x = 2;
Src_assign_inner ==
    <<"x", " ", "=", " ", "2", ";">>

\* piece: fun f(){
Src_return_head ==
    <<"f", "u", "n", " ", "f", "(", ")", "{">>

\* piece: return 7; print "no";
Src_return_stmt ==
    <<"r", "e", "t", "u", "r", "n", " ", "7", ";", " ", "p", "r", "i", "n",
      "t", " ", QUOTE, "n", "o", QUOTE, ";">>

\* piece: print "no"; } print f(); print "end";
Src_return_tail ==
    <<"p", "r", "i", "n", "t", " ", QUOTE, "n", "o", QUOTE, ";", " ", "}",
      " ", "p", "r", "i", "n", "t", " ", "f", "(", ")", ";", " ", "p", "r",
      "i", "n", "t", " ", QUOTE, "e", "n", "d", QUOTE, ";">>

\* piece: var t = 0; fun g(){ t = t + 1; print "g"; return 
Src_sc_head ==
    <<"v", "a", "r", " ", "t", " ", "=", " ", "0", ";", " ", "f", "u", "n",
      " ", "g", "(", ")", "{", " ", "t", " ", "=", " ", "t", " ", "+", " ",
      "1", ";", " ", "p", "r", "i", "n", "t", " ", QUOTE, "g", QUOTE, ";",
      " ", "r", "e", "t", "u", "r", "n", " ">>

\* piece: ; } print 
Src_sc_mid ==
    <<";", " ", "}", " ", "p", "r", "i", "n", "t", " ">>

\* piece:  g(); print t;
Src_sc_tail ==
    <<" ", "g", "(", ")", ";", " ", "p", "r", "i", "n", "t", " ", "t", ";">>

FixedPrograms ==
    {Program("ok", 0, Src_arith, <<<<"7">>>>, 0),
     Program("ok", 0, Src_assignexpr, <<<<"3">>, <<"3">>>>, 0),
     Program("ok", 0, Src_fact, <<<<"6">>>>, 0),
     Program("ok", 0, Src_concat, <<<<"a", "1">>, <<"1", "a">>, <<"t", "r", "u", "e", "!">>>>, 0),
     Program("ok", 0, Src_forloop, <<<<"0">>, <<"1">>, <<"2">>>>, 0),
     Program("ok", 0, Src_halves, <<<<"1", ".", "5">>, <<"3">>, <<"-", "0", ".", "5">>>>, 0),
     Program("ok", 0, Src_empty, <<>>, 0),
     Program("lexerror", 0, Src_lex_char, <<>>, 65),
     Program("lexerror", 0, Src_lex_string, <<>>, 65),
     Program("lexerror", 0, Src_lex_hash, <<>>, 65),
     Program("parseerror", 0, Src_parse_paren, <<>>, 65),
     Program("parseerror", 0, Src_parse_noexpr, <<>>, 65),
     Program("parseerror", 0, Src_parse_varname, <<>>, 65),
     Program("parseerror", 0, Src_parse_brace, <<>>, 65),
     Program("parseerror", 0, Src_parse_semicolon, <<>>, 65),
     Program("parseerror", 0, Src_parse_class, <<>>, 65),
     Program("assigntarget", 0, Src_target_literal, <<>>, 70),
     Program("assigntarget", 0, Src_target_group, <<>>, 70),
     Program("assigntarget", 0, Src_target_sum, <<>>, 70),
     Program("operand", 0, Src_operand_plus, <<>>, 70),
     Program("operand", 0, Src_operand_neg, <<>>, 70),
     Program("operand", 0, Src_operand_less, <<>>, 70),
     Program("operand", 0, Src_operand_times, <<>>, 70),
     Program("operand", 0, Src_operand_mid, <<<<"1">>>>, 70),
     Program("undefined_read", 0, Src_undef_infun, <<>>, 70),
     Program("undefined_read", 0, Src_undef_callee, <<<<"1">>>>, 70),
     Program("undefined_assign", 0, Src_undef_assign_infun, <<>>, 70),
     Program("argcount", 0, Src_argcount_few, <<>>, 70),
     Program("argcount", 0, Src_argcount_many, <<>>, 70),
     Program("noncall", 0, Src_noncall, <<>>, 70),
     Program("lexical", 0, Src_lexical_read, <<<<"g", "l", "o", "b", "a", "l">>>>, 0),
     Program("lexical", 0, Src_caller_unreadable, <<>>, 70),
     Program("lexical", 0, Src_caller_unassignable, <<<<"1">>, <<"2">>>>, 0),
     Program("lexical", 0, Src_args_order, <<<<"2">>, <<"2", "0">>, <<"2", "0">>, <<"0">>>>, 0),
     Program("return", 0, Src_return_loop, <<<<"2">>, <<"e", "n", "d">>>>, 0),
     Program("return", 0, Src_return_inner, <<<<"o", "u", "t", "e", "r">>, <<"2">>>>, 0),
     Program("return", 0, Src_return_nil, <<<<"n", "i", "l">>, <<"n", "i", "l">>>>, 0),
     Program("return", 0, Src_return_else, <<<<"t", "h", "e", "n">>, <<"e", "l", "s", "e">>>>, 0),
     Program("toplevel_return", 0, Src_top_return_value, <<>>, 70),
     Program("toplevel_return", 0, Src_top_return_bare, <<<<"1">>>>, 70),
     Program("toplevel_return", 0, Src_top_return_block, <<>>, 70),
     Program("toplevel_return", 0, Src_top_return_if, <<>>, 70)}

(***************************************************************************)
(* Families of programs, by nesting depth, number of calls and operands.   *)
(***************************************************************************)
MaxNest == 2
MaxCalls == 3

RECURSIVE Rep(_, _)
Rep(s, k) == IF k <= 0 THEN <<>> ELSE s \o Rep(s, k - 1)

\* k blocks around  print x;  with no x declared
UndefinedReadPrograms ==
    {Program("undefined_read", k,
             Rep(Src_open, k) \o Src_print_x \o Rep(Src_close, k), <<>>, 70) :
        k \in 0..MaxNest}

\* k blocks around  x = 1;  with no x declared
UndefinedAssignPrograms ==
    {Program("undefined_assign", k,
             Rep(Src_open, k) \o Src_assign_x \o Rep(Src_close, k), <<>>, 70) :
        k \in 0..MaxNest}

\* the counter closure called k times
CounterPrograms ==
    {Program("counter", k, Src_counter \o Rep(Src_print_f, k),
             [i \in 1..k |-> IntToStr(i)], 0) :
        k \in 1..MaxCalls}

\* var x = 1;  inside k blocks, read after them
ScopeHiddenPrograms ==
    {Program("scope_hidden", k,
             Rep(Src_open, k) \o Src_hidden_decl \o Rep(Src_close, k) \o Src_print_x,
             <<>>, 70) :
        k \in 1..MaxNest}

\* an outer x = 5 redeclared inside k blocks
ScopeShadowPrograms ==
    {Program("scope_shadow", k,
             Src_shadow_outer \o Rep(Src_open, k) \o Src_shadow_inner
             \o Rep(Src_close, k) \o Src_print_x,
             <<<<"6">>, <<"5">>>>, 0) :
        k \in 1..MaxNest}

\* an outer x = 1 assigned inside k blocks
ScopeAssignPrograms ==
    {Program("scope_assign", k,
             Src_assign_outer \o Rep(Src_open, k) \o Src_assign_inner
             \o Rep(Src_close, k) \o Src_print_x,
             <<<<"2">>>>, 0) :
        k \in 1..MaxNest}

\* return inside k blocks of a function body
ReturnNestedPrograms ==
    {Program("return", k,
             Src_return_head \o Rep(Src_open, k) \o Src_return_stmt
             \o Rep(Src_close, k) \o Src_return_tail,
             <<<<"7">>, <<"e", "n", "d">>>>, 0) :
        k \in 0..MaxNest}

\* left operands of and / or: the text of the expression, what print
\* writes for its value, and whether the language counts the value as true
LeftOperands ==
    {[text |-> s_nil, form |-> s_nil, truthy |-> FALSE],
     [text |-> s_false, form |-> s_false, truthy |-> FALSE],
     [text |-> s_true, form |-> s_true, truthy |-> TRUE],
     [text |-> <<"0">>, form |-> <<"0">>, truthy |-> TRUE],
     [text |-> <<"2", ".", "5">>, form |-> <<"2", ".", "5">>, truthy |-> TRUE],
     [text |-> <<QUOTE, QUOTE>>, form |-> <<>>, truthy |-> TRUE],
     [text |-> <<QUOTE, "a", QUOTE>>, form |-> <<"a">>, truthy |-> TRUE],
     [text |-> <<"g">>, form |-> <<"<", "f", "n", " ", "g", ">">>, truthy |-> TRUE]}

\* values returned by the right operand g()
RightResults ==
    {[text |-> <<"7">>, form |-> <<"7">>],
     [text |-> s_nil, form |-> s_nil],
     [text |-> s_false, form |-> s_false]}

\* print E1 op g();  where g counts its calls in t; k = 1 when the left
\* operand decides the result, and g must not run
ShortCircuitPrograms ==
    {Program(op.tag, (IF op.isAnd = e.truthy THEN 0 ELSE 1),
             Src_sc_head \o v.text \o Src_sc_mid \o e.text \o <<" ">> \o op.text
             \o Src_sc_tail,
             (IF op.isAnd = e.truthy
              THEN <<<<"g">>, v.form, <<"1">>>>
              ELSE <<e.form, <<"0">>>>), 0) :
        op \in {[tag |-> "and", text |-> s_and, isAnd |-> TRUE],
                [tag |-> "or", text |-> s_or, isAnd |-> FALSE]},
        e \in LeftOperands, v \in RightResults}

MaxArgs == 3

\* the first k of names, separated by commas
RECURSIVE CommaList(_, _)
CommaList(names, k) ==
    IF k = 0 THEN <<>>
    ELSE IF k = 1 THEN <<names[1]>>
    ELSE CommaList(names, k - 1) \o <<",", " ", names[k]>>

\* fun f(a, b, ..){ print 0; } f(1, 2, ..); print 9;   n parameters, m arguments
ArgCountSrc(n, m) ==
    <<"f", "u", "n", " ", "f", "(">> \o CommaList(<<"a", "b", "c", "d", "e">>, n)
    \o <<")", "{", " ", "p", "r", "i", "n", "t", " ", "0", ";", " ", "}", " ", "f", "(">>
    \o CommaList(<<"1", "2", "3", "4", "5">>, m)
    \o <<")", ";", " ", "p", "r", "i", "n", "t", " ", "9", ";">>

ArgCountPrograms ==
    {Program("argcount_nm", n, ArgCountSrc(n, m),
             (IF n = m THEN <<<<"0">>, <<"9">>>> ELSE <<>>), (IF n = m THEN 0 ELSE 70)) :
        n \in 0..MaxArgs, m \in 0..MaxArgs}

\* piece: var t = 0; fun g(){ t = t + 1; return 7; } 
Src_unbound_head ==
    <<"v", "a", "r", " ", "t", " ", "=", " ", "0", ";", " ", "f", "u", "n",
      " ", "g", "(", ")", "{", " ", "t", " ", "=", " ", "t", " ", "+", " ",
      "1", ";", " ", "r", "e", "t", "u", "r", "n", " ", "7", ";", " ", "}",
      " ">>

\* piece: x = g();
Src_unbound_assign ==
    <<"x", " ", "=", " ", "g", "(", ")", ";">>

\* piece: print t;
Src_print_t ==
    <<"p", "r", "i", "n", "t", " ", "t", ";">>

\* piece: var a = 1; 
Src_bound_decl ==
    <<"v", "a", "r", " ", "a", " ", "=", " ", "1", ";", " ">>

\* piece: print a = 3;
Src_bound_assign ==
    <<"p", "r", "i", "n", "t", " ", "a", " ", "=", " ", "3", ";">>

\* piece: print a;
Src_print_a ==
    <<"p", "r", "i", "n", "t", " ", "a", ";">>


\* x = g();  inside k blocks with no x declared; g counts its calls in t
AssignUnboundPrograms ==
    {Program("assign_unbound", k,
             Src_unbound_head \o Rep(Src_open, k) \o Src_unbound_assign
             \o Rep(Src_close, k) \o Src_print_t, <<>>, 70) :
        k \in 0..MaxNest}

\* print a = 3;  inside k blocks around which a is declared, then print a;
AssignBoundPrograms ==
    {Program("assign_bound", k,
             Src_bound_decl \o Rep(Src_open, k) \o Src_bound_assign
             \o Rep(Src_close, k) \o Src_print_a, <<<<"3">>, <<"3">>>>, 0) :
        k \in 0..MaxNest}

\* piece: var a=0;print 0;
Src_err_head ==
    <<"v", "a", "r", " ", "a", "=", "0", ";", "p", "r", "i", "n", "t", " ",
      "0", ";">>

\* piece: print 9;a=9;
Src_err_tail ==
    <<"p", "r", "i", "n", "t", " ", "9", ";", "a", "=", "9", ";">>

\* piece: {a=1;print 1;
Src_err_block ==
    <<"{", "a", "=", "1", ";", "p", "r", "i", "n", "t", " ", "1", ";">>

\* piece: print 8;a=8;}
Src_err_block_end ==
    <<"p", "r", "i", "n", "t", " ", "8", ";", "a", "=", "8", ";", "}">>

\* piece: while(true){a=2;print 2;
Src_err_while ==
    <<"w", "h", "i", "l", "e", "(", "t", "r", "u", "e", ")", "{", "a", "=",
      "2", ";", "p", "r", "i", "n", "t", " ", "2", ";">>

\* piece: print 7;a=7;}
Src_err_while_end ==
    <<"p", "r", "i", "n", "t", " ", "7", ";", "a", "=", "7", ";", "}">>

\* piece: fun f(){a=3;print 3;
Src_err_fun ==
    <<"f", "u", "n", " ", "f", "(", ")", "{", "a", "=", "3", ";", "p", "r",
      "i", "n", "t", " ", "3", ";">>

\* piece: print 6;a=6;}
Src_err_fun_end ==
    <<"p", "r", "i", "n", "t", " ", "6", ";", "a", "=", "6", ";", "}">>

\* piece: while(true){f();
Src_err_loop ==
    <<"w", "h", "i", "l", "e", "(", "t", "r", "u", "e", ")", "{", "f", "(",
      ")", ";">>

\* statements that raise an error when they are executed
ErrorStatements ==
    {<<"-", QUOTE, "x", QUOTE, ";">>,
     <<"u", ";">>,
     <<"a", "(", ")", ";">>,
     <<"p", "r", "i", "n", "t", " ", "1", "<", QUOTE, "x", QUOTE, ";">>,
     <<"u", "=", "1", ";">>,
     <<"p", "r", "i", "n", "t", " ", "a", "-", QUOTE, "x", QUOTE, ";">>}

\* the statement e inside a block (k = 1), inside a while loop in a block
\* (k = 2), inside the body of a function called from a while loop (k = 3)
Wrapped(e, k) ==
    CASE k = 0 -> e
      [] k = 1 -> Src_err_block \o e \o Src_err_block_end
      [] k = 2 -> Src_err_block \o Src_err_while \o e \o Src_err_while_end
                  \o Src_err_block_end
      [] k = 3 -> Src_err_fun \o e \o Src_err_fun_end \o Src_err_loop
                  \o Src_err_while_end

\* the output of the statements that precede the error at nesting k
Digits(k) ==
    IF k = 3 THEN <<<<"0">>, <<"3">>>> ELSE [i \in 1..(k + 1) |-> IntToStr(i - 1)]

\* var a=0;print 0; ...e... print 9;a=9;   every level sets a and prints
\* its number before the error, and a larger number after it
FirstErrorPrograms ==
    {Program("first_error", k, Src_err_head \o Wrapped(e, k) \o Src_err_tail,
             Digits(k), 70) :
        e \in ErrorStatements, k \in 0..3}

\* piece: fun g(){print 0;return 1;}fun f(x){print x;return g;}f(
Src_chained_head ==
    <<"f", "u", "n", " ", "g", "(", ")", "{", "p", "r", "i", "n", "t", " ", "0", ";",
      "r", "e", "t", "u", "r", "n", " ", "1", ";", "}", "f", "u", "n", " ", "f", "(",
      "x", ")", "{", "p", "r", "i", "n", "t", " ", "x", ";", "r", "e", "t", "u", "r",
      "n", " ", "g", ";", "}", "f", "(">>

\* piece: );print 9;
Src_chained_tail ==
    <<")", ";", "p", "r", "i", "n", "t", " ", "9", ";">>

\* the first argument list: empty, a call that prints, two arguments, a
\* name that is not defined, a chained call
FirstArguments ==
    {<<>>, <<"g", "(", ")">>, <<"1", ",", "2">>, <<"u">>, <<"g", "(", ")", "(", "u", ")">>}

\* the second argument list: its text, its nodes, and what f prints of it
SecondArguments ==
    {[text |-> <<"5">>, nodes |-> <<Leaf("Number", <<"5">>)>>, out |-> <<"5">>],
     [text |-> <<QUOTE, "s", QUOTE>>, nodes |-> <<Leaf("String", <<"s">>)>>,
      out |-> <<"s">>],
     [text |-> <<"7", ",", "8">>,
      nodes |-> <<Leaf("Number", <<"7">>), Leaf("Number", <<"8">>)>>, out |-> <<>>],
     [text |-> <<>>, nodes |-> <<>>, out |-> <<>>]}

\* fun g(){..}fun f(x){..}f(A)(B);print 9;
ChainedSrc(A, B) ==
    Src_chained_head \o A \o <<")", "(">> \o B.text \o Src_chained_tail

ChainedCallPrograms ==
    {Program("chained", Len(B.nodes), ChainedSrc(A, B),
             (IF Len(B.nodes) = 1 THEN <<B.out, <<"9">>>> ELSE <<>>),
             (IF Len(B.nodes) = 1 THEN 0 ELSE 70)) :
        A \in FirstArguments, B \in SecondArguments}

\* statements that print, ahead of a statement that does not parse
BeforeError ==
    {<<"p", "r", "i", "n", "t", " ", "1", ";">>,
     <<"p", "r", "i", "n", "t", " ", "1", ";", "v", "a", "r", " ", "a", "=", "2", ";",
       "p", "r", "i", "n", "t", " ", "a", ";">>,
     <<"f", "u", "n", " ", "f", "(", ")", "{", "p", "r", "i", "n", "t", " ", "3", ";",
       "}", "f", "(", ")", ";", "{", "p", "r", "i", "n", "t", " ", "4", ";", "}">>}

\* token runs that are no statement
Unparsable ==
    {<<"p", "r", "i", "n", "t", ";">>,
     <<"(", "1", ";">>,
     <<"v", "a", "r", ";">>,
     <<"{", "p", "r", "i", "n", "t", " ", "5", ";">>,
     <<"f", "u", "n", "(", ")", "{", "}">>,
     <<"i", "f", " ", "a", ";">>,
     <<"w", "h", "i", "l", "e", "(", "a", ";">>,
     <<"f", "o", "r", "(", ";", ")">>,
     <<"f", "(", "1", ";">>,
     <<"r", "e", "t", "u", "r", "n", " ", "1", "}">>,
     <<"}">>,
     <<"1", "+", ";">>,
     <<"a", "=", ";">>}

AfterError ==
    {<<>>,
     <<"p", "r", "i", "n", "t", " ", "6", ";">>}

\* BEFORE UNPARSABLE AFTER
SyntaxErrorPrograms ==
    {Program("syntax", 0, b \o u \o a, <<>>, 65) :
        b \in BeforeError, u \in Unparsable, a \in AfterError}

Catalog ==
    SyntaxErrorPrograms \cup ChainedCallPrograms \cup FirstErrorPrograms \cup ArgCountPrograms \cup AssignUnboundPrograms \cup AssignBoundPrograms
    \cup FixedPrograms \cup UndefinedReadPrograms \cup UndefinedAssignPrograms
    \cup CounterPrograms \cup ScopeHiddenPrograms \cup ScopeShadowPrograms
    \cup ScopeAssignPrograms \cup ReturnNestedPrograms \cup ShortCircuitPrograms

Times == {1700000000}

Init ==
    /\ input \in Catalog
    /\ pc = "start"
    /\ lexer = LexInit
    /\ ast = NoNode
    /\ idx = 0
    /\ store \in {NewStore(t) : t \in Times}
    /\ stderr = <<>>
    /\ status = "running"
    /\ exitCode = 0
    /\ thrown = NoThrow

Next == Lex \/ Parse \/ ExecStatement \/ Finish

Spec == Init /\ [][Next]_vars

(***************************************************************************)
(* Properties of the process in run mode.                                  *)
(***************************************************************************)
Exited == pc = "exited"

ExitedWith(code) == Exited /\ status = "exit" /\ exitCode = code

RuntimeErrorTypes ==
    {OperandMustBeNumber, OperandsMustBeNumbers, ArgumentCountMismatch,
     CallOnNonFunction, RuntimeError}

\* C1: in run mode the exit code is 0 when lexing, parsing and evaluation
\* all end without error, 65 when the lexer reported an error or the parser
\* raised a ParseError, and 70 when the evaluator raised a runtime error or
\* the parser raised InvalidAssignmentTarget; an undefined variable reaches
\* the driver as an Error with code 70, never as a std::runtime_error
\* (code 1).  Every program of the catalog ends with the code expected of it.
C1_ExitCodes ==
    Exited =>
        /\ (lexer.exitCode = 0 /\ thrown = NoThrow) => ExitedWith(0)
        /\ lexer.exitCode # 0 => ExitedWith(65)
        /\ (thrown.ctl = "Error" /\ thrown.err.type = ParseError) => ExitedWith(65)
        /\ (thrown.ctl = "Error"
            /\ thrown.err.type \in RuntimeErrorTypes \cup {InvalidAssignmentTarget})
           => ExitedWith(70)
        /\ thrown.ctl # "runtime_error"
        /\ ~ExitedWith(1)
        /\ input.tag \in {"undefined_read", "undefined_assign", "scope_hidden"}
           => (ExitedWith(70) /\ thrown.err.type = RuntimeError)
        /\ input.tag # "toplevel_return" => ExitedWith(input.expCode)

\* an undefined variable read inside nested blocks has ended the run
C1_Witness ==
    /\ ExitedWith(70)
    /\ input.tag = "undefined_read"
    /\ input.k = MaxNest
    /\ thrown.err.type = RuntimeError

\* C2: a function returned from a call keeps the variables of that call:
\* the n-th call of the counter returned by mk() yields n, so the program
\* that calls it k times prints 1, 2, .. k.
C2_ClosureCounter ==
    (Exited /\ input.tag = "counter") =>
        /\ ExitedWith(0)
        /\ Len(store.out) = input.k
        /\ \A n \in 1..input.k : store.out[n] = IntToStr(n)

\* the counter has been called MaxCalls times
C2_Witness ==
    /\ Exited
    /\ input.tag = "counter"
    /\ input.k = MaxCalls
    /\ Len(store.calls) = MaxCalls + 1

\* C3: a variable declared in a block is not visible after the block (a
\* read is then an undefined variable error, or sees the outer binding of
\* the same name unchanged), and an assignment in a nested block to a name
\* declared outside changes the outer binding.
C3_BlockScope ==
    Exited =>
        /\ input.tag = "scope_hidden" =>
              (ExitedWith(70) /\ thrown.err.type = RuntimeError /\ store.out = <<>>)
        /\ input.tag = "scope_shadow" =>
              (ExitedWith(0) /\ store.out = <<<<"6">>, <<"5">>>>)
        /\ input.tag = "scope_assign" =>
              (ExitedWith(0) /\ store.out = <<<<"2">>>>)

\* the inner declaration has run in the innermost of MaxNest blocks and the
\* outer binding was printed after them
C3_Witness ==
    /\ Exited
    /\ input.tag = "scope_shadow"
    /\ input.k = MaxNest
    /\ Len(store.envs) = 1 + MaxNest
    /\ Len(store.out) = 2

\* C4: the environment of every call encloses the closure of the function
\* called, not the environment of the caller; free variables of the body
\* resolve at the declaration site, the locals of the caller can be neither
\* read nor assigned, and arguments are evaluated in the environment of the
\* caller from left to right.
C4_LexicalCall ==
    /\ \A c \in 1..Len(store.calls) :
          store.envs[store.calls[c].localEnv].enclosing
              = store.funcs[store.calls[c].fn].closure
    /\ (Exited /\ input.tag = "lexical") =>
          (ExitedWith(input.expCode) /\ store.out = input.expOut)

\* a function declared at top level was called from inside another call
C4_Witness ==
    /\ Exited
    /\ input.tag = "lexical"
    /\ \E c \in 1..Len(store.calls) :
          /\ store.calls[c].callerEnv # GlobalEnv
          /\ store.funcs[store.calls[c].fn].closure = GlobalEnv

\* C5: a return at any depth of blocks, ifs and loops ends the nearest
\* enclosing call and only it: no later statement of the body runs, the
\* call yields the value (nil without one), and the caller goes on.
C5_ReturnUnwinds ==
    (Exited /\ input.tag = "return") =>
        (ExitedWith(0) /\ store.out = input.expOut)

\* a return inside MaxNest blocks has ended the call and the caller went on
C5_Witness ==
    /\ Exited
    /\ input.tag = "return"
    /\ input.k = MaxNest
    /\ Len(store.calls) = 1
    /\ Len(store.out) = 2

\* C6: a return executed at top level is reported as a RuntimeError and
\* the process returns exit code 70.
C6_TopLevelReturn ==
    (Exited /\ input.tag = "toplevel_return") =>
        (ExitedWith(70) /\ thrown.ctl = "Error" /\ thrown.err.type = RuntimeError)

\* C7: E1 and E2 does not evaluate E2 when E1 is falsy and yields the value
\* of E1, otherwise the value of E2; E1 or E2 does not evaluate E2 when E1 is
\* truthy and yields the value of E1, otherwise the value of E2; the value
\* is the operand itself, not a boolean.
C7_ShortCircuit ==
    (Exited /\ input.tag \in {"and", "or"}) =>
        /\ ExitedWith(0)
        /\ store.out = input.expOut
        /\ Len(store.calls) = 1 - input.k

\* a left operand that decides the result was printed and g was not called
C7_Witness ==
    /\ Exited
    /\ input.tag \in {"and", "or"}
    /\ input.k = 1
    /\ Len(store.out) = 2
    /\ store.calls = <<>>

(***************************************************************************)
(* Expressions given to the lexer and the parser: a OP1 b OP2 c for every  *)
(* pair of binary operators, and unary operators before the operands.      *)
(***************************************************************************)
BinaryOperators ==
    {<<"=">>, s_or, s_and, <<"=", "=">>, <<"!", "=">>, <<"<">>, <<"<", "=">>,
     <<">">>, <<">", "=">>, <<"+">>, <<"-">>, <<"*">>, <<"/">>, <<"%">>}

UnaryOperators == {<<"!">>, <<"-">>}

Expression(tag, ops, src) ==
    [tag |-> tag, ops |-> ops, src |-> src, k |-> 0, expOut |-> <<>>, expCode |-> 0]

\* a OP1 b OP2 c;
BinaryExpressions ==
    {Expression("binary", <<op1, op2>>,
                <<"a", " ">> \o op1 \o <<" ", "b", " ">> \o op2 \o <<" ", "c", ";">>) :
        op1 \in BinaryOperators, op2 \in BinaryOperators}

\* U1 U2 a OP U2 b;
UnaryExpressions ==
    {Expression("unary", <<u1, u2, op>>,
                u1 \o <<" ">> \o u2 \o <<" ", "a", " ">> \o op \o <<" ">> \o u2
                \o <<" ", "b", ";">>) :
        u1 \in UnaryOperators, u2 \in UnaryOperators,
        op \in BinaryOperators \ {<<"=">>}}

\* left operands of = that are not an Identifier node: literals, a grouping,
\* calls and operator expressions
NonIdentifierOperands ==
    {<<"1">>, <<QUOTE, "s", QUOTE>>, s_true, s_nil, <<"(", "a", ")">>,
     <<"f", "(", ")">>, <<"f", "(", "a", ")">>, <<"a", " ", "+", " ", "b">>,
     <<"-", "a">>, <<"!", "a">>, <<"a", " ", "<", " ", "b">>}

\* what follows the = : expressions, and token runs that are no expression
AfterEqual ==
    {<<"2", ";">>, <<"b", ";">>, <<"b", " ", "=", " ", "3", ";">>,
     <<"(", "b", ")", ";">>, <<"2">>, <<";">>, <<>>, <<")", ";">>,
     <<"(", "2", ";">>, <<"+", ";">>, <<"}">>, <<"2", " ", "=", " ", ";">>}

\* LEFT = TAIL
AssignmentTargets ==
    {Expression("target", <<left, tail>>, left \o <<" ", "=", " ">> \o tail) :
        left \in NonIdentifierOperands, tail \in AfterEqual}

\* statements of every kind, with and without their optional parts
Statements ==
    {<<"p", "r", "i", "n", "t", " ", "-", "a", ";">>,
     <<"p", "r", "i", "n", "t", " ", "!", "(", "a", "-", "b", ")", ";">>,
     <<"p", "r", "i", "n", "t", " ", "a", "=", "b", "=", "1", ";">>,
     <<"p", "r", "i", "n", "t", " ", "f", "(", "a", ",", "1", ")", "(", "b", ")", ";">>,
     <<"v", "a", "r", " ", "a", ";">>,
     <<"v", "a", "r", " ", "a", "=", "(", "1", ")", ";">>,
     <<"r", "e", "t", "u", "r", "n", ";">>,
     <<"r", "e", "t", "u", "r", "n", " ", "a", " ", "o", "r", " ", "b", ";">>,
     <<"i", "f", "(", "a", ")", "p", "r", "i", "n", "t", " ", "1", ";">>,
     <<"i", "f", "(", "a", ")", "p", "r", "i", "n", "t", " ", "1", ";", "e", "l", "s",
       "e", " ", "b", "=", "2", ";">>,
     <<"w", "h", "i", "l", "e", "(", "a", "<", "b", ")", "a", "=", "a", "+", "1", ";">>,
     <<"{", "}">>,
     <<"{", "v", "a", "r", " ", "a", ";", "p", "r", "i", "n", "t", " ", "a", ";", "}">>,
     <<"f", "u", "n", " ", "f", "(", ")", "{", "}">>,
     <<"f", "u", "n", " ", "f", "(", "a", ")", "{", "r", "e", "t", "u", "r", "n", " ",
       "a", ";", "}">>,
     <<"f", "u", "n", " ", "f", "(", "a", ",", "b", ")", "{", "f", "u", "n", " ", "g",
       "(", ")", "{", "}", "}">>,
     <<"f", "u", "n", " ", "f", "(", ")", "f", "o", "r", "(", "v", "a", "r", " ", "i",
       ";", ";", ")", "g", "(", ")", ";">>,
     <<"f", "o", "r", "(", ";", ";", ")", "{", "}">>,
     <<"a", "=", "=", "b", ";">>,
     <<"a">>}

\* what a statement is put in: nothing, a block, a function body, the
\* branches of an if, the body of a while and of a for
Wrappers ==
    {<<<<>>, <<>>>>,
     <<<<"{", "a", ";">>, <<"}">>>>,
     <<<<"f", "u", "n", " ", "h", "(", "x", ",", "y", ")", "{">>, <<"}">>>>,
     <<<<"i", "f", "(", "a", ")", "{", "}", "e", "l", "s", "e", " ">>, <<>>>>,
     <<<<"w", "h", "i", "l", "e", "(", "a", ")", "{">>, <<"b", ";", "}">>>>,
     <<<<"f", "o", "r", "(", "a", ";", ";", "b", ")", "{">>, <<"}">>>>}

\* BEFORE STATEMENT AFTER
WrappedStatements ==
    {Expression("statement", <<w, t>>, w[1] \o t \o w[2]) :
        w \in Wrappers, t \in Statements}

\* a clause of a for statement: its text, and the node it stands for
\* (NoNode for an omitted clause)
Clause(text, node) == [text |-> text, node |-> node]

ForInitializers ==
    {Clause(<<";">>, NoNode),
     Clause(<<"v", "a", "r", " ", "i", "=", "0", ";">>,
            Node("VarDecl", <<"i">>, <<Leaf("Number", <<"0">>)>>)),
     Clause(<<"v", "a", "r", " ", "i", ";">>, Leaf("VarDecl", <<"i">>)),
     Clause(<<"i", "=", "0", ";">>,
            Node("BinaryOp", <<"=">>, <<Leaf("Identifier", <<"i">>),
                                        Leaf("Number", <<"0">>)>>))}

ForConditions ==
    {Clause(<<>>, NoNode),
     Clause(<<"i", "<", "3">>,
            Node("BinaryOp", <<"<">>, <<Leaf("Identifier", <<"i">>),
                                        Leaf("Number", <<"3">>)>>)),
     Clause(s_false, Leaf("Boolean", s_false))}

ForIncrements ==
    {Clause(<<>>, NoNode),
     Clause(<<"i", "=", "i", "+", "1">>,
            Node("BinaryOp", <<"=">>,
                 <<Leaf("Identifier", <<"i">>),
                   Node("BinaryOp", <<"+">>, <<Leaf("Identifier", <<"i">>),
                                               Leaf("Number", <<"1">>)>>)>>)),
     Clause(<<"f", "(", "i", ")">>,
            Node("Call", <<"f">>, <<Leaf("Identifier", <<"i">>)>>))}

ForBodies ==
    {Clause(<<"p", "r", "i", "n", "t", " ", "i", ";">>,
            Node("PrintStmt", s_print, <<Leaf("Identifier", <<"i">>)>>)),
     Clause(<<"{", "p", "r", "i", "n", "t", " ", "i", ";", "}">>,
            Node("Program", s_block,
                 <<Node("PrintStmt", s_print, <<Leaf("Identifier", <<"i">>)>>)>>)),
     Clause(<<"{", "}">>, Leaf("Program", s_block)),
     Clause(<<"i", ";">>, Leaf("Identifier", <<"i">>))}

\* for (I C; U) B, where the text of I ends with its ;
ForStatements ==
    {Expression("for", <<I, C, U, B>>,
                <<"f", "o", "r", "(">> \o I.text \o C.text \o <<";">> \o U.text
                    \o <<")">> \o B.text) :
        I \in ForInitializers, C \in ForConditions, U \in ForIncrements,
        B \in ForBodies}

InitParse ==
    /\ input \in BinaryExpressions \cup UnaryExpressions \cup AssignmentTargets
                 \cup ForStatements \cup WrappedStatements
    /\ pc = "start"
    /\ lexer = LexInit
    /\ ast = NoNode
    /\ idx = 0
    /\ store \in {NewStore(t) : t \in Times}
    /\ stderr = <<>>
    /\ status = "running"
    /\ exitCode = 0
    /\ thrown = NoThrow

NextParse == Lex \/ Parse

SpecParse == InitParse /\ [][NextParse]_vars

\* the precedence level of a binary operator, lowest first
Prec(op) ==
    CASE op = <<"=">> -> 1
      [] op = s_or -> 2
      [] op = s_and -> 3
      [] op \in {<<"=", "=">>, <<"!", "=">>} -> 4
      [] op \in {<<"<">>, <<"<", "=">>, <<">">>, <<">", "=">>} -> 5
      [] op \in {<<"+">>, <<"-">>} -> 6
      [] op \in {<<"*">>, <<"/">>, <<"%">>} -> 7

Ident(name) == Leaf("Identifier", name)
Binary(op, left, right) == Node("BinaryOp", op, <<left, right>>)
Unary(op, right) == Node("BinaryOp", op, <<right>>)

Parsed == pc = "running" /\ Len(ast.children) = 1

LeftGrouped(op1, op2) ==
    Binary(op2, Binary(op1, Ident(<<"a">>), Ident(<<"b">>)), Ident(<<"c">>))

RightGrouped(op1, op2) ==
    Binary(op1, Ident(<<"a">>), Binary(op2, Ident(<<"b">>), Ident(<<"c">>)))

\* C8: a OP1 b OP2 c groups as a OP1 (b OP2 c) when OP1 has the lower
\* precedence, as (a OP1 b) OP2 c when the two have the same precedence
\* (and when OP1 has the higher one), except that a = b = c groups as
\* a = (b = c); an assignment to a OP1 b is refused.  Unary ! and - bind
\* tighter than every binary operator and nest to the right.
C8_Precedence ==
    /\ (pc \in {"running", "exited"} /\ input.tag = "binary") =>
          LET op1 == input.ops[1]
              op2 == input.ops[2]
          IN  IF Prec(op1) < Prec(op2) \/ (op1 = <<"=">> /\ op2 = <<"=">>)
              THEN Parsed /\ ast.children[1] = RightGrouped(op1, op2)
              ELSE IF op2 = <<"=">>
              THEN Exited /\ thrown.err.type = InvalidAssignmentTarget
              ELSE Parsed /\ ast.children[1] = LeftGrouped(op1, op2)
    /\ (pc \in {"running", "exited"} /\ input.tag = "unary") =>
          LET u1 == input.ops[1]
              u2 == input.ops[2]
              op == input.ops[3]
          IN  /\ Parsed
              /\ ast.children[1]
                    = Binary(op, Unary(u1, Unary(u2, Ident(<<"a">>))),
                                 Unary(u2, Ident(<<"b">>)))

\* a - b - c has been parsed as (a - b) - c
C8_Witness ==
    /\ Parsed
    /\ input.tag = "binary"
    /\ input.ops = <<<<"-">>, <<"-">>>>
    /\ ast.children[1] = LeftGrouped(<<"-">>, <<"-">>)

(***************************************************************************)
(* Programs that apply == , != and + to every pair of operand values.      *)
(***************************************************************************)
\* an operand: the text of the expression, the kind of its value, the
\* number it denotes (for a number) and what print writes for it
OperandValue(text, kind, num, form) ==
    [text |-> text, kind |-> kind, num |-> num, form |-> form]

OperandValues ==
    {OperandValue(s_nil, "nil", Rat(0, 1), s_nil),
     OperandValue(s_true, "bool", Rat(0, 1), s_true),
     OperandValue(s_false, "bool", Rat(0, 1), s_false),
     OperandValue(<<"0">>, "number", Rat(0, 1), <<"0">>),
     OperandValue(<<"1">>, "number", Rat(1, 1), <<"1">>),
     OperandValue(<<"1", ".", "0">>, "number", Rat(1, 1), <<"1">>),
     OperandValue(<<"2", ".", "5">>, "number", Rat(5, 2), <<"2", ".", "5">>),
     OperandValue(<<QUOTE, QUOTE>>, "string", Rat(0, 1), <<>>),
     OperandValue(<<QUOTE, "a", QUOTE>>, "string", Rat(0, 1), <<"a">>),
     OperandValue(<<QUOTE, "1", QUOTE>>, "string", Rat(0, 1), <<"1">>),
     OperandValue(<<"f">>, "function", Rat(0, 1), <<"<", "f", "n", " ", "f", ">">>),
     OperandValue(<<"g">>, "function", Rat(0, 1), <<"<", "f", "n", " ", "g", ">">>)}

\* fun f(){} fun g(){}
Src_functions ==
    <<"f", "u", "n", " ", "f", "(", ")", "{", "}", " ",
      "f", "u", "n", " ", "g", "(", ")", "{", "}", " ">>

\* same kind and equal underlying values
SameValue(x, y) == x.kind = y.kind /\ x.form = y.form

BoolForm(b) == IF b THEN s_true ELSE s_false

\* fun f(){} fun g(){} print X == Y; print X != Y;
EqualityPrograms ==
    {Program("equality", 0,
             Src_functions \o s_print \o <<" ">> \o x.text \o <<" ", "=", "=", " ">>
             \o y.text \o <<";", " ">> \o s_print \o <<" ">> \o x.text
             \o <<" ", "!", "=", " ">> \o y.text \o <<";">>,
             <<BoolForm(SameValue(x, y)), BoolForm(~SameValue(x, y))>>, 0) :
        x \in OperandValues, y \in OperandValues}

NumberForm(x) == IF RatIsInt(x) THEN IntToStr(x.n) ELSE ToStringG(x)

\* fun f(){} fun g(){} print X + Y;
PlusPrograms ==
    {Program("plus", 0,
             Src_functions \o s_print \o <<" ">> \o x.text \o <<" ", "+", " ">>
             \o y.text \o <<";">>,
             (IF x.kind = "number" /\ y.kind = "number"
              THEN <<NumberForm(RatAdd(x.num, y.num))>>
              ELSE IF x.kind = "string" \/ y.kind = "string"
              THEN <<x.form \o y.form>>
              ELSE <<>>),
             (IF (x.kind = "number" /\ y.kind = "number")
                 \/ x.kind = "string" \/ y.kind = "string"
              THEN 0 ELSE 70)) :
        x \in OperandValues, y \in OperandValues}

InitOps ==
    /\ input \in EqualityPrograms \cup PlusPrograms
    /\ pc = "start"
    /\ lexer = LexInit
    /\ ast = NoNode
    /\ idx = 0
    /\ store \in {NewStore(t) : t \in Times}
    /\ stderr = <<>>
    /\ status = "running"
    /\ exitCode = 0
    /\ thrown = NoThrow

SpecOps == InitOps /\ [][Next]_vars

\* C9: x == y is true exactly when x and y have the same kind and equal
\* underlying values (the same function object, for functions), false for
\* different kinds, never an error, and x != y is its negation; f == f is
\* true for a function f.
C9_Equality ==
    (Exited /\ input.tag = "equality") =>
        (ExitedWith(0) /\ store.out = input.expOut)

\* C10: number + number is the sum; when either operand is a string the
\* result is the concatenation, in operand order, of the string with the
\* print form of the other operand of whatever kind; every other pair
\* raises OperandsMustBeNumbers (code 70).
C10_Plus ==
    (Exited /\ input.tag = "plus") =>
        /\ ExitedWith(input.expCode)
        /\ store.out = input.expOut
        /\ input.expCode = 70 => thrown.err.type = OperandsMustBeNumbers

(***************************************************************************)
(* Further properties of the process in run mode.                          *)
(***************************************************************************)
\* C11: a call of a function of n parameters with m arguments, m # n, ends
\* with ArgumentCountMismatch (code 70) raised with the message
\* "Expected n args but got m." (the statement loop of the program adds
\* its "[line i]" suffix before the driver writes it), and the body has not
\* run (nothing printed, no call entered); with m = n the call runs the
\* body and the program ends with code 0.
C11_ArgumentCount ==
    (Exited /\ input.tag = "argcount_nm") =>
        \A n \in 0..MaxArgs, m \in 0..MaxArgs :
            input.src = ArgCountSrc(n, m) =>
                IF n # m
                THEN /\ ExitedWith(70)
                     /\ thrown.ctl = "Error"
                     /\ thrown.err.type = ArgumentCountMismatch
                     /\ thrown.err.message
                            = <<"Expected ">> \o IntToStr(n) \o <<" args but got ">>
                              \o IntToStr(m) \o <<".">> \o LineSuffix(1)
                     /\ stderr = <<thrown.err.message>>
                     /\ store.out = <<>>
                     /\ store.calls = <<>>
                ELSE /\ ExitedWith(0)
                     /\ thrown = NoThrow
                     /\ store.out = <<<<"0">>, <<"9">>>>
                     /\ Len(store.calls) = 1

\* a function of MaxArgs parameters was called with one argument fewer
C11_Witness ==
    /\ ExitedWith(70)
    /\ input.tag = "argcount_nm"
    /\ input.src = ArgCountSrc(MaxArgs, MaxArgs - 1)
    /\ thrown.err.type = ArgumentCountMismatch

\* C12: an assignment x = e to a name bound in no environment ends the
\* program with a runtime error (code 70) after e was evaluated (g was
\* called and counted in t), and no environment has a binding for x: every
\* environment keeps exactly its names.  When the name is bound the value
\* of the assignment is the assigned value: print a = 3; prints 3 and the
\* later read of a yields 3.
C12_Assignment ==
    /\ (Exited /\ input.tag = "assign_unbound") =>
          /\ ExitedWith(70)
          /\ thrown.ctl = "Error"
          /\ thrown.err.type = RuntimeError
          /\ store.out = <<>>
          /\ Len(store.calls) = 1
          /\ store.envs[GlobalEnv].values[<<"t">>] = NumV(Rat(1, 1))
          /\ DOMAIN store.envs[GlobalEnv].values = {<<"t">>, <<"g">>}
          /\ \A e \in 2..Len(store.envs) : DOMAIN store.envs[e].values = {}
    /\ (Exited /\ input.tag = "assign_bound") =>
          /\ ExitedWith(0)
          /\ store.out = <<<<"3">>, <<"3">>>>
          /\ store.envs[GlobalEnv].values[<<"a">>] = NumV(Rat(3, 1))
          /\ \A e \in 2..Len(store.envs) : DOMAIN store.envs[e].values = {}

\* the assignment to the unbound name ran inside MaxNest blocks, after g ran
C12_Witness ==
    /\ ExitedWith(70)
    /\ input.tag = "assign_unbound"
    /\ input.k = MaxNest
    /\ Len(store.calls) = 1
    /\ thrown.err.type = RuntimeError
    /\ <<"x">> \notin DOMAIN store.envs[GlobalEnv].values

\* C14: the evaluator stops at the first runtime error.  Each program sets a
\* and prints at every level of nesting (program, block, while loop,
\* function body) before and after the statement that raises the error:
\* the process ends with code 70, the output is exactly what was printed
\* before the error, a holds the value assigned last before it, and nothing
\* that follows the error at any level has printed or assigned.
C14_FirstError ==
    (Exited /\ input.tag = "first_error") =>
        /\ ExitedWith(70)
        /\ thrown.ctl = "Error"
        /\ Len(stderr) = 1
        /\ store.out = Digits(input.k)
        /\ store.envs[GlobalEnv].values[<<"a">>] = NumV(Rat(input.k, 1))
        /\ idx = (IF input.k = 3 THEN 3 ELSE 2)
        /\ Len(store.calls) = (IF input.k = 3 THEN 1 ELSE 0)
        /\ Len(store.envs) = input.k + 1

\* an error raised in the body of a function called from a while loop
C14_Witness ==
    /\ ExitedWith(70)
    /\ input.tag = "first_error"
    /\ input.k = 3
    /\ store.out = <<<<"0">>, <<"3">>>>
    /\ thrown.err.type = OperandMustBeNumber

(***************************************************************************)
(* Further properties of the parser.                                       *)
(***************************************************************************)
\* C13: when the parser has consumed an = whose left operand is not an
\* Identifier node (a literal, a grouping, a call, an operator expression),
\* the parse ends with InvalidAssignmentTarget and code 70, whatever tokens
\* follow the = .
C13_InvalidTarget ==
    (pc \in {"running", "exited"} /\ input.tag = "target") =>
        /\ ExitedWith(70)
        /\ thrown.ctl = "Error"
        /\ thrown.err.type = InvalidAssignmentTarget

\* the part of C13 the parser keeps: the right-hand side is parsed first, and
\* the target is refused once that has succeeded
C13_TargetAfterValue ==
    (pc \in {"running", "exited"} /\ input.tag = "target") =>
        /\ Exited
        /\ thrown.ctl = "Error"
        /\ thrown.err.type \in {InvalidAssignmentTarget, ParseError}
        /\ (input.ops[2] \in {<<"2", ";">>, <<"b", ";">>, <<"b", " ", "=", " ", "3", ";">>,
                               <<"(", "b", ")", ";">>, <<"2">>})
              <=> (ExitedWith(70) /\ thrown.err.type = InvalidAssignmentTarget)

(***************************************************************************)
(* The commands parse, evaluate and run of main.  The input names the      *)
(* command; the standard output is store.out, one element for each line.    *)
(***************************************************************************)
\* ASTNode::toString, case Type::Number: the lexeme always starts with a
\* digit, so std::stod does not throw
NumberToString(s) ==
    IF s = s_true \/ s = s_false THEN s
    ELSE IF \A j \in 1..Len(s) : s[j] # "." THEN s \o <<".", "0">>
    ELSE LET t == StripZeros(s)
         IN  IF t # <<>> /\ t[Len(t)] = "." THEN t \o <<"0">> ELSE t

\* ASTNode::toString
RECURSIVE toString(_)
RECURSIVE ChildrenToString(_, _)
ChildrenToString(children, i) ==
    IF i > Len(children) THEN <<>>
    ELSE <<" ">> \o toString(children[i]) \o ChildrenToString(children, i + 1)

toString(node) ==
    CASE node.type = "Number" -> NumberToString(node.value)
      [] node.type \in {"Boolean", "String", "Nil", "Identifier"} -> node.value
      [] node.type = "BinaryOp" ->
            <<"(">> \o node.value \o ChildrenToString(node.children, 1) \o <<")">>
      [] node.type = "PrintStmt" ->
            <<"(", "p", "r", "i", "n", "t", " ">>
            \o (IF node.children = <<>> THEN <<>> ELSE toString(node.children[1]))
            \o <<")">>
      [] node.type = "Program" ->
            <<"(", "p", "r", "o", "g", "r", "a", "m">>
            \o ChildrenToString(node.children, 1) \o <<")">>
      [] node.type = "VarDecl" ->
            <<"(", "v", "a", "r", " ">> \o node.value
            \o (IF node.children = <<>> THEN <<>>
                ELSE <<" ", "=", " ">> \o toString(node.children[1]))
            \o <<")">>
      [] OTHER -> <<>>

\* the text Evaluator::evaluate writes for the value of the program
EvaluateForm(value) ==
    IF value.kind = "nil" THEN s_nil
    ELSE IF value.kind = "bool" THEN (IF value.b THEN s_true ELSE s_false)
    ELSE IF value.kind = "double"
    THEN IF RatIsInt(value.num) THEN IntToStr(value.num.n) ELSE ToStringG(value.num)
    ELSE IF value.kind = "string" THEN value.s
    ELSE <<>>

\* main, command parse, after getTokens returned exit code 0: Parser::parse
\* prints the only statement of the program, or the program, and returns 0;
\* an Error is caught, its message written and its code returned
ParseCommand ==
    /\ pc = "lexed"
    /\ input.command = "parse"
    /\ \E p \in {parseAST(lexer.tokens)} :
           IF p.ok
           THEN /\ ast' = p.node
                /\ store' = [store EXCEPT !.out =
                                Append(@, IF Len(p.node.children) = 1
                                          THEN toString(p.node.children[1])
                                          ELSE toString(p.node))]
                /\ status' = "exit"
                /\ exitCode' = 0
                /\ UNCHANGED <<stderr, thrown>>
           ELSE /\ thrown' = [ctl |-> "Error", err |-> p.err]
                /\ IF p.err = OutOfBounds
                   THEN /\ status' = "undefined"
                        /\ UNCHANGED <<stderr, exitCode>>
                   ELSE /\ status' = "exit"
                        /\ stderr' = Append(stderr, p.err.message)
                        /\ exitCode' = p.err.type.code
                /\ UNCHANGED <<ast, store>>
    /\ pc' = "exited"
    /\ UNCHANGED <<input, lexer, idx>>

\* main, command evaluate, after getTokens returned exit code 0:
\* Evaluator::evaluate parses, evaluates the Program node in the global
\* environment and writes the value; an Error is caught, its message written
\* and its code returned; a ReturnException is caught nowhere.  main then
\* ends the line.
EvaluateCommand ==
    /\ pc = "lexed"
    /\ input.command = "evaluate"
    /\ \E p \in {parseAST(lexer.tokens)} :
           IF ~p.ok
           THEN /\ thrown' = [ctl |-> "Error", err |-> p.err]
                /\ pc' = "exited"
                /\ IF p.err = OutOfBounds
                   THEN /\ status' = "undefined"
                        /\ UNCHANGED <<stderr, exitCode, store>>
                   ELSE /\ status' = "exit"
                        /\ stderr' = Append(stderr, p.err.message)
                        /\ exitCode' = p.err.type.code
                        /\ store' = [store EXCEPT !.out = Append(@, <<>>)]
                /\ UNCHANGED ast
           ELSE /\ ast' = p.node
                /\ \E r \in {evalNode(p.node, GlobalEnv, store)} :
                       IF r.ctl = "ok"
                       THEN /\ store' = [r.S EXCEPT !.out =
                                           Append(Append(@, EvaluateForm(r.val)), <<>>)]
                            /\ pc' = "exited"
                            /\ status' = "exit"
                            /\ exitCode' = 0
                            /\ UNCHANGED <<stderr, thrown>>
                       ELSE IF r.ctl = "Diverged"
                       THEN /\ store' = r.S
                            /\ pc' = "diverged"
                            /\ UNCHANGED <<stderr, status, exitCode, thrown>>
                       ELSE IF r.ctl = "Error"
                       THEN /\ store' = [r.S EXCEPT !.out = Append(@, <<>>)]
                            /\ pc' = "exited"
                            /\ thrown' = [ctl |-> r.ctl, err |-> r.err]
                            /\ status' = "exit"
                            /\ stderr' = Append(stderr, r.err.message)
                            /\ exitCode' = r.err.type.code
                       ELSE /\ store' = r.S
                            /\ pc' = "exited"
                            /\ thrown' = [ctl |-> r.ctl, err |-> r.err]
                            /\ status' = "abort"
                            /\ UNCHANGED <<stderr, exitCode>>
    /\ UNCHANGED <<input, lexer, idx>>

\* main, command run, after getTokens returned exit code 0: Run::run
RunCommand ==
    /\ input.command = "run"
    /\ (Parse \/ ExecStatement \/ Finish)

Commands == {"parse", "evaluate", "run"}

\* what precedes, makes and follows a lexical error in a file
FileStarts == {<<>>, <<"p", "r", "i", "n", "t", " ", "1", ";", " ">>, <<"v", "a", "r", " ", "a", " ", "=", " ", "2", ";", " ">>}

FileFaults == {<<>>, <<"@">>, <<"#">>, <<"$", "@">>, <<QUOTE, "a", "b", "c">>, <<"a", " ", "?", " ", "b">>}

FileEnds == {<<>>, <<" ", "p", "r", "i", "n", "t", " ", "3", ";">>, <<" ", "1", " ", "+", " ", "2">>}

CommandInputs ==
    {[tag |-> "command", command |-> c, k |-> (IF fault = <<>> THEN 0 ELSE 1),
      src |-> start \o fault \o end, expOut |-> <<>>,
      expCode |-> (IF fault = <<>> THEN 0 ELSE 65)] :
        c \in Commands, start \in FileStarts, fault \in FileFaults, end \in FileEnds}

InitCommands ==
    /\ input \in CommandInputs
    /\ pc = "start"
    /\ lexer = LexInit
    /\ ast = NoNode
    /\ idx = 0
    /\ store \in {NewStore(t) : t \in Times}
    /\ stderr = <<>>
    /\ status = "running"
    /\ exitCode = 0
    /\ thrown = NoThrow

NextCommands == Lex \/ ParseCommand \/ EvaluateCommand \/ RunCommand

SpecCommands == InitCommands /\ [][NextCommands]_vars

\* C15: in the parse, evaluate and run commands the parser and the evaluator
\* run only after the lexer has returned exit code 0.  When the lexer has
\* reported a lexical error the process ends with code 65 and nothing was
\* parsed, no tree and no value was printed and no statement was executed.
C15_LexerFirst ==
    /\ (pc # "start" /\ lexer.exitCode # 0) =>
          /\ ExitedWith(65)
          /\ lexer.err # <<>>
          /\ ast = NoNode
          /\ idx = 0
          /\ \E t \in Times : store = NewStore(t)
          /\ stderr = <<>>
          /\ thrown = NoThrow
    /\ (ast # NoNode \/ store.out # <<>> \/ stderr # <<>> \/ idx # 0) =>
          (lexer.exitCode = 0 /\ lexer.err = <<>>)
    /\ (pc # "start" /\ input.k = 1) => lexer.exitCode = 65

\* a file whose first statement is valid and which has a lexical error later
\* was given to the evaluate command, and the process has ended
C15_Witness ==
    /\ ExitedWith(65)
    /\ input.command = "evaluate"
    /\ input.src = <<"p", "r", "i", "n", "t", " ", "1", ";", " ", "@", " ", "p", "r", "i", "n", "t", " ", "3", ";">>
    /\ Len(lexer.tokens) > 1
    /\ store.out = <<>>

(***************************************************************************)
(* The lexer by itself: a client calls Tokenizer::getTokens on one text    *)
(* and then on another.  Each pass is the reset at the top of getTokens,   *)
(* the iterations of the for loop of valorateTokens, and the EOF token     *)
(* added after the loop.  idx is the loop variable i.                      *)
(***************************************************************************)
MaxLexLen == 3

LexAlphabet == {"1", ".", "a", "@", QUOTE, NL, ";"}

\* every text of at most n characters of the alphabet
Texts(n) == UNION {[1..m -> LexAlphabet] : m \in 0..n}

FixedTexts ==
    {<<"1", ".", "2", ".", "3">>,
     <<"1", "2", ".", "5", ";">>,
     <<"1", ".", ".", "2">>,
     <<"7", ".", "a">>,
     <<QUOTE, "a", "b", QUOTE, " ", QUOTE, "c">>,
     <<"a", " ", "=", " ", QUOTE, "x">>,
     <<"a", "@", "b", "#", "c">>,
     <<QUOTE, "a", NL, "b", QUOTE, " ", "$", " ", QUOTE, "c">>}

FirstTexts == Texts(MaxLexLen) \cup FixedTexts

SecondTexts == {<<"@">>, <<QUOTE, "a">>, <<"1", NL, "@">>, <<"a", ";">>}

\* texts of the characters that start the one- and two-character operators
OperatorAlphabet == {"=", "!", "<", ">", "|", ";"}

OperatorTexts == UNION {[1..m -> OperatorAlphabet] : m \in 0..MaxLexLen}

\* what a block comment holds, and what stands before and after it
CommentAlphabet == {"a", ">", "|", NL}

CommentTexts == UNION {[1..m -> CommentAlphabet] : m \in 0..MaxLexLen}

\* the text holds "|>"
HasClose(s) == \E j \in 1..(Len(s) - 1) : s[j] = "|" /\ s[j + 1] = ">"

CommentBefore == {<<>>, <<"1">>, <<"a", ";", " ">>, <<"x", " ", "<">>}

CommentAfter == {<<>>, <<"2">>, <<" ", ";", "b">>}

\* P <| C |> S  where C holds no |>
CommentInputs ==
    {[tag |-> "comment", first |-> P \o <<"<", "|">> \o C \o <<"|", ">">> \o S,
      src |-> <<"@">>, ops |-> <<P, C, S>>] :
        P \in CommentBefore, C \in {c \in CommentTexts : ~HasClose(c)},
        S \in CommentAfter}

\* P <| R  where no |> comes after the <
UnterminatedInputs ==
    {[tag |-> "unterminated", first |-> P \o <<"<", "|">> \o R, src |-> <<"@">>,
      ops |-> <<P, R>>] :
        P \in CommentBefore, R \in {r \in CommentTexts : ~HasClose(<<"|">> \o r)}}

LexInputs ==
    {[tag |-> "lex", first |-> A, src |-> B] : A \in FirstTexts, B \in SecondTexts}
    \cup CommentInputs \cup UnterminatedInputs
    \cup {[tag |-> "operators", first |-> A, src |-> <<"@">>] : A \in OperatorTexts}

\* the text of the pass in progress
PassText == IF pc \in {"first", "returned"} THEN input.first ELSE input.src

\* getTokens, before valorateTokens: tokens.clear(); exitCode = 0;
GetTokensReset ==
    /\ pc \in {"start", "returned"}
    /\ lexer' = LexState(<<>>, lexer.line, 0, lexer.err)
    /\ idx' = 0
    /\ pc' = (IF pc = "start" THEN "first" ELSE "second")
    /\ UNCHANGED <<input, ast, store, stderr, status, exitCode, thrown>>

\* one iteration of the for loop of valorateTokens, with its i++
ValorateTokensStep ==
    /\ pc \in {"first", "second"}
    /\ idx < Len(PassText)
    /\ \E r \in {LexStep(PassText, idx, lexer)} :
           /\ lexer' = r.L
           /\ idx' = r.i + 1
    /\ UNCHANGED <<input, pc, ast, store, stderr, status, exitCode, thrown>>

\* a valorateTokens that adds the EOF token only after a pass without error
ValorateTokensEnd_unlessError ==
    /\ pc \in {"first", "second"}
    /\ idx >= Len(PassText)
    /\ lexer' = (IF lexer.exitCode = 0 THEN Emit(lexer, Token("EOF_OF_FILE", <<>>))
                 ELSE lexer)
    /\ pc' = (IF pc = "first" THEN "returned" ELSE "done")
    /\ UNCHANGED <<input, idx, ast, store, stderr, status, exitCode, thrown>>

\* valorateTokens after the loop: the EOF token; getTokens returns
ValorateTokensEnd ==
    /\ pc \in {"first", "second"}
    /\ idx >= Len(PassText)
    /\ lexer' = Emit(lexer, Token("EOF_OF_FILE", <<>>))
    /\ pc' = (IF pc = "first" THEN "returned" ELSE "done")
    /\ UNCHANGED <<input, idx, ast, store, stderr, status, exitCode, thrown>>

InitLex ==
    /\ input \in LexInputs
    /\ pc = "start"
    /\ lexer = LexInit
    /\ ast = NoNode
    /\ idx = 0
    /\ store \in {NewStore(t) : t \in Times}
    /\ stderr = <<>>
    /\ status = "running"
    /\ exitCode = 0
    /\ thrown = NoThrow

NextLex == GetTokensReset \/ ValorateTokensStep \/ ValorateTokensEnd

SpecLex == InitLex /\ [][NextLex]_vars

\* a pass has returned
PassDone == pc \in {"returned", "done"}

\* the diagnostics of the pass in progress: lexer.err holds those of both
PassErrors ==
    IF pc \in {"start", "first", "returned"} THEN lexer.err
    ELSE SubSeq(lexer.err, Len(getTokens(input.first, LexInit).err) + 1, Len(lexer.err))

EOFToken == Token("EOF_OF_FILE", <<>>)

\* C16: for every input, also the empty one and those with lexical errors,
\* the token sequence a lex pass returns ends with an EOF token with empty
\* lexeme and holds exactly one EOF token (and none before the pass ends).
C16_EndsWithEOF ==
    /\ PassDone =>
          /\ lexer.tokens # <<>>
          /\ lexer.tokens[Len(lexer.tokens)] = EOFToken
          /\ lexer.tokens[Len(lexer.tokens)].lexeme = <<>>
          /\ Cardinality({i \in 1..Len(lexer.tokens) :
                             lexer.tokens[i].type = "EOF_OF_FILE"}) = 1
    /\ (pc \in {"first", "second"}) =>
          \A i \in 1..Len(lexer.tokens) : lexer.tokens[i].type # "EOF_OF_FILE"

\* a pass over a text with two lexical errors has returned EOF alone
C16_Witness ==
    /\ pc = "returned"
    /\ input.first = <<"@", QUOTE, "a">>
    /\ lexer.exitCode = 65
    /\ lexer.tokens = <<EOFToken>>

\* the text with every character the lexer does not know replaced by a blank
Blanked(s) == [j \in 1..Len(s) |-> IF s[j] \in {"@", "#", "$"} THEN " " ELSE s[j]]

C17_State ==
    /\ lexer.exitCode \in {0, 65}
    /\ (pc # "start") => (lexer.exitCode = 65 <=> PassErrors # <<>>)
    /\ \A j \in 1..Len(PassErrors) :
          PassErrors[j].kind \in {"Unexpected character: ", "Unterminated string."}
    /\ (pc = "returned" /\ input.tag = "lex"
          /\ \A j \in 1..Len(input.first) : input.first[j] # QUOTE) =>
          /\ lexer.tokens = getTokens(Blanked(input.first), LexInit).tokens
          /\ Len(lexer.err)
                = Cardinality({j \in 1..Len(input.first) : input.first[j] \in {"@", "#", "$"}})

C17_Step ==
    (pc \in {"first", "second"} /\ lexer.exitCode = 65) =>
        /\ lexer'.exitCode = 65
        /\ Len(lexer'.tokens) >= Len(lexer.tokens)

\* C17: lexical errors do not stop lexing.  The exit code of a pass is 65
\* exactly when a lexical error (unexpected character, unterminated string)
\* was reported during the pass, and 0 otherwise; once 65 it stays 65 until
\* the pass has returned; an unexpected character is skipped alone, so the
\* tokens are those of the text with a blank in its place, in order.
C17_ErrorsDoNotStop == []C17_State /\ [][C17_Step]_vars

\* a token was emitted after two unexpected characters
C17_Witness ==
    /\ pc = "returned"
    /\ input.first = <<"a", "@", "b", "#", "c">>
    /\ lexer.exitCode = 65
    /\ Len(lexer.err) = 2
    /\ Len(lexer.tokens) = 4

\* the number of quotes in a text, and the index of the last one
Quotes(s) == {j \in 1..Len(s) : s[j] = QUOTE}

LastQuote(s) == CHOOSE j \in Quotes(s) : \A k \in Quotes(s) : k <= j

\* C18: when the input ends before the closing quote of a string literal,
\* the lexer reports Unterminated string., the exit code is 65, no STRING
\* token is emitted for these characters, the tokens lexed before the
\* opening quote are kept, and the token sequence ends with EOF.
C18_Unterminated ==
    (pc = "returned" /\ Cardinality(Quotes(input.first)) % 2 = 1) =>
        /\ lexer.err # <<>>
        /\ lexer.err[Len(lexer.err)].kind = "Unterminated string."
        /\ Cardinality({j \in 1..Len(lexer.err) :
                           lexer.err[j].kind = "Unterminated string."}) = 1
        /\ lexer.exitCode = 65
        /\ Cardinality({i \in 1..Len(lexer.tokens) : lexer.tokens[i].type = "STRING"})
              = (Cardinality(Quotes(input.first)) - 1) \div 2
        /\ lexer.tokens
              = getTokens(SubSeq(input.first, 1, LastQuote(input.first) - 1), LexInit).tokens
        /\ lexer.tokens[Len(lexer.tokens)] = EOFToken

\* a = "x : the two tokens before the quote were kept
C18_Witness ==
    /\ pc = "returned"
    /\ input.first = <<"a", " ", "=", " ", QUOTE, "x">>
    /\ Len(lexer.tokens) = 3
    /\ lexer.exitCode = 65

\* C19: the lexer is re-entrant.  At the start of every pass the line
\* counter is 1 and the exit code 0, so the second pass gives for its text
\* the tokens, the exit code and the diagnostics (with their line numbers)
\* that a pass over this text gives on a lexer never used before.
C19_Reentrant ==
    /\ (pc \in {"first", "second"} /\ idx = 0) =>
          (lexer.line = 1 /\ lexer.exitCode = 0)
    /\ (pc = "done") =>
          /\ lexer.tokens = getTokens(input.src, LexInit).tokens
          /\ lexer.exitCode = getTokens(input.src, LexInit).exitCode
          /\ PassErrors = getTokens(input.src, LexInit).err

\* the lexeme is DIGIT+ ( "." DIGIT+ )?
NumberLexeme(lexeme) ==
    /\ lexeme # <<>>
    /\ \A j \in 1..Len(lexeme) : isDigit(lexeme[j]) \/ lexeme[j] = "."
    /\ isDigit(lexeme[1])
    /\ isDigit(lexeme[Len(lexeme)])
    /\ Cardinality({j \in 1..Len(lexeme) : lexeme[j] = "."}) <= 1

\* C20: the lexeme of a NUMBER token is a run of digits with at most one
\* interior '.', one that has a digit on both sides: a second '.' ends the
\* number, and a '.' that no digit follows is not part of the lexeme.
C20_NumberLexeme ==
    PassDone =>
        \A i \in 1..Len(lexer.tokens) :
            lexer.tokens[i].type = "NUMBER" => NumberLexeme(lexer.tokens[i].lexeme)

\* the kind of the token that the character c makes alone, and with a '='
AloneKind(c) ==
    CASE c = "=" -> "EQUAL" [] c = "!" -> "BANG" [] c = "<" -> "LESS"
      [] c = ">" -> "GREATER" [] c = ";" -> "SEMICOLON"

WithEqualKind(c) ==
    CASE c = "=" -> "EQUAL_EQUAL" [] c = "!" -> "BANG_EQUAL" [] c = "<" -> "LESS_EQUAL"
      [] c = ">" -> "GREATER_EQUAL"

\* the tokens of a text of operator characters, read from index i (0-based):
\* one token for each = ! < > , of two characters when a '=' follows
RECURSIVE OperatorTokens(_, _)
OperatorTokens(s, i) ==
    IF i >= Len(s) THEN <<>>
    ELSE IF CharAt(s, i) = "|" THEN OperatorTokens(s, i + 1)
    ELSE IF CharAt(s, i) \in {"=", "!", "<", ">"} /\ CharAt(s, i + 1) = "="
    THEN <<Token(WithEqualKind(CharAt(s, i)), <<CharAt(s, i), "=">>)>>
         \o OperatorTokens(s, i + 2)
    ELSE <<Token(AloneKind(CharAt(s, i)), <<CharAt(s, i)>>)>> \o OperatorTokens(s, i + 1)

\* the text opens no block comment
NoCommentOpen(s) == \A j \in 1..(Len(s) - 1) : ~(s[j] = "<" /\ s[j + 1] = "|")

\* C21: outside strings and comments each = ! < > makes exactly one token:
\* the two-character operator when a '=' follows, and otherwise the
\* one-character token, whatever follows; every > that no = follows makes a
\* GREATER token.
C21_OperatorTokens ==
    (pc = "returned" /\ input.tag = "operators" /\ NoCommentOpen(input.first)) =>
        lexer.tokens = OperatorTokens(input.first, 0) \o <<EOFToken>>

\* what the lexer does with these characters: as C21 says, but a > that a |
\* follows makes no token
RECURSIVE OperatorTokensMade(_, _)
OperatorTokensMade(s, i) ==
    IF i >= Len(s) THEN <<>>
    ELSE IF CharAt(s, i) = "|" THEN OperatorTokensMade(s, i + 1)
    ELSE IF CharAt(s, i) \in {"=", "!", "<", ">"} /\ CharAt(s, i + 1) = "="
    THEN <<Token(WithEqualKind(CharAt(s, i)), <<CharAt(s, i), "=">>)>>
         \o OperatorTokensMade(s, i + 2)
    ELSE IF CharAt(s, i) = ">" /\ CharAt(s, i + 1) = "|"
    THEN OperatorTokensMade(s, i + 1)
    ELSE <<Token(AloneKind(CharAt(s, i)), <<CharAt(s, i)>>)>>
         \o OperatorTokensMade(s, i + 1)

C21_GreaterBeforeBar ==
    (pc = "returned" /\ input.tag = "operators" /\ NoCommentOpen(input.first)) =>
        lexer.tokens = OperatorTokensMade(input.first, 0) \o <<EOFToken>>

\* the tokens of a text without the EOF token
TokensOf(s) ==
    SubSeq(getTokens(s, LexInit).tokens, 1, Len(getTokens(s, LexInit).tokens) - 1)

\* C22: a block comment is skipped and injects no tokens.  For P <| C |> S
\* with no |> in C the lexer emits no token and no diagnostic for the
\* characters from the opening < to the closing >, and the tokens are those
\* of P followed by those of S: for every C, the empty one, one with
\* newlines, one that begins with > .
C22_BlockComment ==
    (pc = "returned" /\ input.tag = "comment") =>
        /\ lexer.tokens = TokensOf(input.ops[1]) \o TokensOf(input.ops[3]) \o <<EOFToken>>
        /\ lexer.err = <<>>
        /\ lexer.exitCode = 0

\* what the lexer does: as C22 says when C does not begin with > ; when it
\* does, the comment ends at that > and the rest of C, the | and the > are
\* lexed
C22_UnlessGreaterFirst ==
    (pc = "returned" /\ input.tag = "comment") =>
        IF input.ops[2] # <<>> /\ input.ops[2][1] = ">"
        THEN /\ lexer.tokens
                  = TokensOf(input.ops[1])
                    \o TokensOf(SubSeq(input.ops[2], 2, Len(input.ops[2]))
                                \o <<"|", ">">> \o input.ops[3])
                    \o <<EOFToken>>
             /\ lexer.exitCode = 65
        ELSE /\ lexer.tokens
                  = TokensOf(input.ops[1]) \o TokensOf(input.ops[3]) \o <<EOFToken>>
             /\ lexer.err = <<>>
             /\ lexer.exitCode = 0

RECURSIVE JoinLexemes(_, _)
JoinLexemes(tokens, i) ==
    IF i >= Len(tokens) THEN <<>>
    ELSE tokens[i].lexeme
         \o (IF i + 1 < Len(tokens) THEN <<" ">> ELSE <<>>)
         \o JoinLexemes(tokens, i + 1)

\* the (kind, lexeme) pairs of a token sequence
KindsAndLexemes(tokens) ==
    [i \in 1..Len(tokens) |-> <<tokens[i].type, tokens[i].lexeme>>]

\* C23: lex round trip.  The lexeme of a token is the source text that made
\* it, so for a source that lexes without error the lexemes joined by single
\* blanks lex to the same sequence of (kind, lexeme) tokens, also when the
\* source holds string literals.
C23_RoundTrip ==
    (pc = "returned" /\ lexer.exitCode = 0) =>
        KindsAndLexemes(getTokens(JoinLexemes(lexer.tokens, 1), LexInit).tokens)
            = KindsAndLexemes(lexer.tokens)

\* Token::print: the lexeme as it is written, a STRING between quotes
PrintedLexeme(token) ==
    IF token.type = "STRING" THEN <<QUOTE>> \o token.lexeme \o <<QUOTE>> ELSE token.lexeme

PrintedTokens(tokens) ==
    [i \in 1..Len(tokens) |-> [tokens[i] EXCEPT !.lexeme = PrintedLexeme(tokens[i])]]

\* what the lexer does: the round trip holds of the lexemes as Token::print
\* writes them, and of the stored lexemes when the source has no string
C23_PrintedRoundTrip ==
    (pc = "returned" /\ lexer.exitCode = 0) =>
        /\ KindsAndLexemes(
               getTokens(JoinLexemes(PrintedTokens(lexer.tokens), 1), LexInit).tokens)
              = KindsAndLexemes(lexer.tokens)
        /\ (\A i \in 1..Len(lexer.tokens) : lexer.tokens[i].type # "STRING") =>
              KindsAndLexemes(getTokens(JoinLexemes(lexer.tokens, 1), LexInit).tokens)
                  = KindsAndLexemes(lexer.tokens)

(***************************************************************************)
(* The Environment class by itself: a client makes environments and calls  *)
(* define, assign and get on them.  input is the call made last and what   *)
(* it returned; found = FALSE stands for the std::runtime_error thrown.    *)
(***************************************************************************)
MaxEnvs == 2

EnvNames == {<<"x">>, <<"y">>}

EnvValues == {NumV(Rat(1, 1)), StrV(<<"s">>)}

EnvCall(op, env, name, value, found) ==
    [tag |-> "env", op |-> op, env |-> env, name |-> name, value |-> value,
     found |-> found]

InitEnv ==
    /\ input = EnvCall("none", GlobalEnv, <<"x">>, NilV, TRUE)
    /\ pc = "start"
    /\ lexer = LexInit
    /\ ast = NoNode
    /\ idx = 0
    /\ store \in {NewStore(t) : t \in Times}
    /\ stderr = <<>>
    /\ status = "running"
    /\ exitCode = 0
    /\ thrown = NoThrow

\* std::make_shared<Environment>(enclosing)
EnvNew ==
    /\ Len(store.envs) < MaxEnvs
    /\ \E enclosing \in 1..Len(store.envs) :
           /\ store' = AllocEnv(store, enclosing)
           /\ input' = EnvCall("new", Len(store.envs) + 1, <<"x">>, NilV, TRUE)
    /\ UNCHANGED <<pc, lexer, ast, idx, stderr, status, exitCode, thrown>>

\* env->define(name, value)
EnvDefine ==
    /\ \E env \in 1..Len(store.envs), name \in EnvNames, value \in EnvValues :
           /\ store' = define(store, env, name, value)
           /\ input' = EnvCall("define", env, name, value, TRUE)
    /\ UNCHANGED <<pc, lexer, ast, idx, stderr, status, exitCode, thrown>>

\* env->assign(name, value)
EnvAssign ==
    /\ \E env \in 1..Len(store.envs), name \in EnvNames, value \in EnvValues :
           \E a \in {assign(store, env, name, value)} :
               /\ store' = a.S
               /\ input' = EnvCall("assign", env, name, value, a.found)
    /\ UNCHANGED <<pc, lexer, ast, idx, stderr, status, exitCode, thrown>>

\* env->get(name)
EnvGet ==
    /\ \E env \in 1..Len(store.envs), name \in EnvNames :
           \E g \in {get(store, env, name)} :
               input' = EnvCall("get", env, name, g.val, g.found)
    /\ UNCHANGED <<pc, lexer, ast, idx, store, stderr, status, exitCode, thrown>>

NextEnv == EnvNew \/ EnvDefine \/ EnvAssign \/ EnvGet

SpecEnv == InitEnv /\ [][NextEnv]_vars

\* the environments from env outwards
RECURSIVE Chain(_, _)
Chain(S, env) ==
    IF env = 0 THEN <<>> ELSE <<env>> \o Chain(S, S.envs[env].enclosing)

\* the environments of the chain of env that hold name, nearest first
Holders(S, env, name) ==
    SelectSeq(Chain(S, env), LAMBDA e : name \in DOMAIN S.envs[e].values)

\* S and T differ at most in what environment e holds for name
SameBut(S, T, e, name) ==
    /\ Len(T.envs) = Len(S.envs)
    /\ \A f \in 1..Len(S.envs) :
          /\ T.envs[f].enclosing = S.envs[f].enclosing
          /\ f # e => T.envs[f] = S.envs[f]
          /\ \A n \in DOMAIN S.envs[f].values \cup DOMAIN T.envs[f].values :
                (f # e \/ n # name) =>
                    /\ n \in DOMAIN S.envs[f].values
                    /\ n \in DOMAIN T.envs[f].values
                    /\ T.envs[f].values[n] = S.envs[f].values[n]

C24_DefineStep ==
    (input'.op = "define") =>
        /\ SameBut(store, store', input'.env, input'.name)
        /\ input'.name \in DOMAIN store'.envs[input'.env].values
        /\ store'.envs[input'.env].values[input'.name] = input'.value
        /\ get(store', input'.env, input'.name) = [found |-> TRUE, val |-> input'.value]

C24_AssignStep ==
    (input'.op = "assign") =>
        IF Holders(store, input'.env, input'.name) = <<>>
        THEN ~input'.found /\ store' = store
        ELSE /\ input'.found
             /\ SameBut(store, store', Holders(store, input'.env, input'.name)[1],
                         input'.name)
             /\ \A f \in 1..Len(store.envs) :
                   DOMAIN store'.envs[f].values = DOMAIN store.envs[f].values
             /\ store'.envs[Holders(store, input'.env, input'.name)[1]]
                     .values[input'.name] = input'.value
             /\ get(store', input'.env, input'.name)
                   = [found |-> TRUE, val |-> input'.value]

\* C24: define(name, v) writes only the innermost environment: it sets name
\* there, replacing a binding, and leaves the enclosing environments and
\* the other names as they are.  assign(name, v) changes exactly one
\* binding, that of the nearest environment of the chain that holds name,
\* adds no name anywhere, and fails without any change when no environment
\* of the chain holds name.  After either, get(name) from the same
\* environment returns v.
C24_DefineAssign == [][C24_DefineStep /\ C24_AssignStep]_vars

\* an assign through an environment that does not hold the name has changed
\* the binding of the enclosing one, which holds another name as well
C24_Witness ==
    /\ input.op = "assign"
    /\ input.found
    /\ input.env = 2
    /\ DOMAIN store.envs[2].values = EnvNames \ {input.name}
    /\ DOMAIN store.envs[1].values = EnvNames
    /\ store.envs[1].values[input.name] = input.value
    /\ store.envs[2].values # store.envs[1].values

(***************************************************************************)
(* The trees the parser returns.                                           *)
(***************************************************************************)
\* enum class ASTNode::Type
ASTTypes ==
    {"Number", "BinaryOp", "String", "Boolean", "Nil", "PrintStmt", "IfStmt",
     "WhileStmt", "ReturnStmt", "Function", "Call", "Program", "VarDecl",
     "Identifier"}

\* the nodes of a tree
RECURSIVE Nodes(_)
Nodes(node) ==
    {node} \cup UNION {Nodes(node.children[j]) : j \in 1..Len(node.children)}

ForCondition(C) == IF C.node = NoNode THEN Leaf("Boolean", s_true) ELSE C.node

ForBody(U, B) ==
    IF U.node = NoNode THEN B.node ELSE Node("Program", s_block, <<B.node, U.node>>)

ForLoop(C, U, B) == Node("WhileStmt", s_while, <<ForCondition(C), ForBody(U, B)>>)

Desugared(I, C, U, B) ==
    IF I.node = NoNode THEN ForLoop(C, U, B)
    ELSE Node("Program", s_block, <<I.node, ForLoop(C, U, B)>>)

WellFormedNode(n) ==
    CASE n.type = "PrintStmt" -> Len(n.children) = 1
      [] n.type = "WhileStmt" -> Len(n.children) = 2
      [] n.type = "IfStmt" -> Len(n.children) \in {2, 3}
      [] n.type \in {"VarDecl", "ReturnStmt"} -> Len(n.children) \in {0, 1}
      [] n.type = "BinaryOp" ->
            IF n.value = s_group \/ n.value = <<"!">> THEN Len(n.children) = 1
            ELSE IF n.value = <<"-">> THEN Len(n.children) \in {1, 2}
            ELSE /\ Len(n.children) = 2
                 /\ n.value = <<"=">> => n.children[1].type = "Identifier"
      [] n.type = "Function" ->
            /\ Len(n.children) >= 1
            /\ n.children[Len(n.children)].type = "Program"
            /\ n.children[Len(n.children)].value = s_block
            /\ \A j \in 1..(Len(n.children) - 1) : n.children[j].type = "Identifier"
      [] OTHER -> TRUE

\* C26: every tree the parser returns has a Program node with value program
\* as its root, one child under every PrintStmt, two under every WhileStmt,
\* two or three under every IfStmt, none or one under every VarDecl and
\* ReturnStmt, one under every BinaryOp that is a group or a unary ! or -
\* and two under every other BinaryOp, an Identifier as the left child of
\* every = , and under every Function node zero or more Identifier nodes
\* followed by one Program node with value block.
C26_WellFormed ==
    pc = "running" =>
        /\ ast.type = "Program"
        /\ ast.value = s_program
        /\ \A n \in Nodes(ast) : WellFormedNode(n)

\* a function with two parameters, whose body holds an if with an else and
\* an assignment, is parsed
C26_Witness ==
    /\ pc = "running"
    /\ input.tag = "statement"
    /\ \E n \in Nodes(ast) : n.type = "Function" /\ Len(n.children) = 3
    /\ \E n \in Nodes(ast) : n.type = "IfStmt" /\ Len(n.children) = 3
    /\ \E n \in Nodes(ast) : n.type = "BinaryOp" /\ n.value = <<"=">>

\* C27: f(A)(B) parses to one Call node with value f whose children are the
\* arguments B, the inner call and A being dropped; at run time f is called
\* once, with B (or refused for the number of arguments of B), A is not
\* evaluated and what f returns is not called.
C27_ChainedCall ==
    (pc \in {"running", "exited"} /\ input.tag = "chained") =>
        \A A \in FirstArguments, B \in SecondArguments :
            input.src = ChainedSrc(A, B) =>
                /\ Len(ast.children) = 4
                /\ ast.children[3] = Node("Call", <<"f">>, B.nodes)
                /\ Exited =>
                      IF Len(B.nodes) = 1
                      THEN /\ ExitedWith(0)
                           /\ store.out = <<B.out, <<"9">>>>
                           /\ Len(store.calls) = 1
                           /\ store.funcs[store.calls[1].fn].name = <<"f">>
                      ELSE /\ ExitedWith(70)
                           /\ thrown.err.type = ArgumentCountMismatch
                           /\ store.out = <<>>
                           /\ store.calls = <<>>

\* f(g())(5); has run: f printed 5, and g, which prints 0, was not called
C27_Witness ==
    /\ ExitedWith(0)
    /\ input.tag = "chained"
    /\ input.src = ChainedSrc(<<"g", "(", ")">>, [text |-> <<"5">>,
                        nodes |-> <<Leaf("Number", <<"5">>)>>, out |-> <<"5">>])
    /\ store.out = <<<<"5">>, <<"9">>>>
    /\ Len(store.calls) = 1

\* C28: in run mode all the tokens are parsed before a statement is
\* evaluated: a program one of whose statements does not parse executes no
\* statement and prints nothing, whatever print statements stand before the
\* faulty one, and ends with the error of the parser.
C28_ParsedFirst ==
    input.tag = "syntax" =>
        /\ store.out = <<>>
        /\ idx = 0
        /\ pc # "running"
        /\ Exited =>
              /\ ExitedWith(65)
              /\ thrown.ctl = "Error"
              /\ thrown.err.type = ParseError
              /\ ast = NoNode

\* print 1;var a=2;print a;{print 5;print 6; has ended with the error of
\* the parser, which found the end of the tokens inside the block
C28_Witness ==
    /\ ExitedWith(65)
    /\ input.tag = "syntax"
    /\ Len(input.src) = 41
    /\ thrown.err.message = <<"Error at '", "': Expect expression.\n">>
    /\ stderr = <<thrown.err.message>>
    /\ store.out = <<>>

(***************************************************************************)
(* The parser by itself, on token sequences that need not come from a      *)
(* program a user would write: a start that leads into one of the          *)
(* constructs, then every run of at most MaxTokens tokens, then the EOF    *)
(* token.                                                                  *)
(***************************************************************************)
MaxTokens == 2

\* one token of each kind the parser tells apart, and one it accepts nowhere
TokenAlphabet ==
    {TokensOf(
        <<"f", "u", "n", " ", "a", " ", "(", " ", ")", " ", ",", " ", "f", "o", "r",
          " ", "v", "a", "r", " ", ";", " ", "i", "f", " ", "e", "l", "s", "e", " ",
          "w", "h", "i", "l", "e", " ", "{", " ", "}", " ", "=", " ", "r", "e", "t",
          "u", "r", "n", " ", "p", "r", "i", "n", "t", " ", "-", " ", "1", " ", "c",
          "l", "a", "s", "s", " ", "=", "=", " ", "o", "r">>)[j] :
        j \in 1..21}

TokenRuns == UNION {[1..m -> TokenAlphabet] : m \in 0..MaxTokens}

TokenStarts ==
    {TokensOf(t) : t \in
        {<<>>,
         <<"f", "o", "r", "(">>,
         <<"f", "o", "r", "(", ";">>,
         <<"f", "o", "r", "(", ";", ";">>,
         <<"f", "o", "r", "(", "a", ";", "a", ";", "a">>,
         <<"f", "u", "n", " ", "a", "(">>,
         <<"f", "u", "n", " ", "a", "(", "a", ",">>,
         <<"a", "(">>,
         <<"a", "(", "a", ",">>,
         <<"{">>,
         <<"i", "f", "(", "a", ")">>,
         <<"i", "f", "(", "a", ")", "{", "}", "e", "l", "s", "e">>,
         <<"w", "h", "i", "l", "e", "(">>,
         <<"v", "a", "r", " ", "a">>,
         <<"v", "a", "r", " ", "a", "=">>,
         <<"r", "e", "t", "u", "r", "n">>,
         <<"p", "r", "i", "n", "t">>,
         <<"(">>,
         <<"-">>,
         <<"a", "=">>,
         <<"a", "=", "=">>,
         <<"a", " ", "o", "r">>}}

TokenInputs ==
    {Expression("tokens", <<start, run>>, <<>>) : start \in TokenStarts, run \in TokenRuns}

InitTokens ==
    /\ input \in TokenInputs
    /\ pc = "lexed"
    /\ lexer = LexState(input.ops[1] \o input.ops[2] \o <<EOFToken>>, 1, 0, <<>>)
    /\ ast = NoNode
    /\ idx = 0
    /\ store \in {NewStore(t) : t \in Times}
    /\ stderr = <<>>
    /\ status = "running"
    /\ exitCode = 0
    /\ thrown = NoThrow

NextTokens == Parse

SpecTokens == InitTokens /\ [][NextTokens]_vars

\* the index of the EOF token
LastIndex == Len(lexer.tokens) - 1

\* what parseAST returns for the tokens, with the position it stopped at
Returned == parseAST(lexer.tokens)

\* C29: on a token sequence that ends with its only EOF token the parser
\* comes to an end, with a tree or with an error; it reads no token at an
\* index at or beyond the end of the sequence, and its position never goes
\* past the EOF token: with a tree it stands on the EOF token.
C29_WithinTokens ==
    input.tag = "tokens" =>
        /\ Returned.err # OutOfBounds
        /\ Returned.pos <= LastIndex
        /\ Returned.ok => Returned.pos = LastIndex
        /\ pc = "running" => (Returned.ok /\ ast = Returned.node)
        /\ Exited =>
              /\ ~Returned.ok
              /\ status = "exit"
              /\ thrown.err = Returned.err
              /\ exitCode \in {65, 70}

\* the tokens end inside the parameters of a function, after a comma, and
\* the parser has ended with its error at the EOF token
C29_Witness ==
    /\ Exited
    /\ input.tag = "tokens"
    /\ Len(lexer.tokens) = 6
    /\ lexer.tokens[5].type = "COMMA"
    /\ lexer.tokens[1].type = "FUN"
    /\ Returned.pos = LastIndex
    /\ thrown.err.message = <<"Error: Expect parameter name.\n">>

=============================================================================
